---- MODULE Spec2Model ----
(***************************************************************************)
(* Model of the force-execution engine of polkadot-referenda-tester:       *)
(* ReferendumSimulator (referendum-simulator.ts), the dispatch-result      *)
(* interpreter (dispatch-result.ts) and the storage format converter       *)
(* (storage-format-converter.ts).                                          *)
(*                                                                         *)
(* Conventions.  A JavaScript value that may be undefined is a sequence    *)
(* of length 0 (undefined) or 1 (the value); a task tuple [block, index]   *)
(* is a sequence of length 2, and <<>> stands for "no task array".         *)
(***************************************************************************)
EXTENDS Integers, Sequences, FiniteSets, TLC

VARIABLES
    phase,          \* which operation the current behaviour exercises
    events,         \* the ParsedEvent list handed to checkExecutionResults
    expectedBlock,  \* its expectedBlock argument, <<>> when not given
    verdict,        \* its return value, <<>> before the call
    isFellowship,   \* ReferendumSimulator.isFellowship
    referendum,     \* the ReferendumInfo under test: id, status, proposalHash
    moveArgs,       \* callType and proposalHash of a moveScheduledCallToNextBlock call
    preCall,        \* whether preExecutionOptions.preCall is given
    head,           \* System.Number of the fork
    relay,          \* ParachainSystem.LastRelayChainBlockNumber, <<>> when the query is absent
    relayRead,      \* what reading it yields: "number", "none" (null / undefined / NaN) or "throws"
    totalIssuance,  \* Balances.TotalIssuance
    refInfo,        \* ReferendumInfoFor[referendum.id] in the fork
    agenda,         \* Scheduler.Agenda: block -> item list, <<>> when the key is absent
    enumOrder,      \* the order in which Agenda.getEntries() yields the keys
    lookup,         \* Scheduler.Lookup: alias id -> task address, <<>> when absent
    ops,            \* the fork-engine calls made so far, in order
    pc,             \* position inside the operation under way
    moved,          \* return value of the last moveScheduledCallToNextBlock, <<>> if none
    thrown,         \* the message of the Error thrown, <<>> if none
    forcedFrom,     \* the record type applyPassingState read, "" before it ran
    outcome,        \* the SimulationResult returned by simulate(), <<>> before
    request,        \* the arguments and endpoints of a testWithFellowship run
    forks,          \* network key -> "running" / "paused" / "destroyed", for every fork created
    clients,        \* client name -> "open" / "destroyed", for every connection acquired
    managers,       \* the additionalManagers map: <<label, network key>> in insertion order
    steps,          \* the coordinator's steps so far, in order
    unhandled,      \* promises that rejected with nobody awaiting them
    warnings,       \* what was logged with logger.warn / logger.error
    todo,           \* the calls the run still has to make, in order
    chainHead,      \* context.chain.head.number, <<>> when chain.head is undefined
    headBefore,     \* newBlock's headBefore, <<>> when undefined
    elapsed,        \* milliseconds newBlock has spent polling
    attempt,        \* waitForChainReady's attempt counter
    maxAttempts     \* waitForChainReady's maxAttempts argument

verifyVars == <<events, expectedBlock, verdict>>
forkVars   == <<head, relay, relayRead, totalIssuance, refInfo, agenda, enumOrder, lookup>>
argVars    == <<isFellowship, referendum, moveArgs, preCall>>
runVars    == <<ops, pc, moved, thrown, forcedFrom, outcome>>
coordVars  == <<request, forks, clients, managers, steps, unhandled, warnings, todo>>
pollVars   == <<chainHead, headBefore, elapsed, attempt, maxAttempts>>

vars == <<phase, verifyVars, forkVars, argVars, runVars, coordVars, pollVars>>

\* ------------------------------------------------------------------ bounds
MaxEvents == 3
MaxItems  == 2
MaxIssuance == 12
MaxBlock  == 5
MaxAdditional == 2
MaxFaults == 2

\* ------------------------------------------------------------ small helpers
SeqsUpTo(S, n) == UNION {[1..k -> S] : k \in 0..n}

\* ------------------------------------------------- dispatch-result.ts values
\* An error payload as formatDispatchError sees it.
ErrUndefined == [kind |-> "undefined", text |-> ""]
ErrString(s) == [kind |-> "string", text |-> s]
ErrTyped(s)  == [kind |-> "typed", text |-> s]
ErrObject(s) == [kind |-> "object", text |-> s]

\* A dispatch result as interpretDispatchResult sees it: `shape` is the
\* JavaScript shape, `flag` its boolean member, `tag` its string member,
\* `err` the payload found under value / error / err / asErr / Err.
Result(shape, flag, tag, err) ==
    [shape |-> shape, flag |-> flag, tag |-> tag, err |-> err]

ResNull         == Result("null", FALSE, "", ErrUndefined)
ResBool(b)      == Result("bool", b, "", ErrUndefined)
ResString(s)    == Result("string", FALSE, s, ErrUndefined)
ResSuccess(b, e) == Result("success", b, "", e)
ResIsOk(b, e)   == Result("isOk", b, "", e)
ResOkFlag(b, e) == Result("ok", b, "", e)
ResOkKey        == Result("Ok", FALSE, "", ErrUndefined)
ResErrKey(e)    == Result("Err", FALSE, "", e)
ResTyped(t, e)  == Result("type", FALSE, t, e)

\* String.prototype.toLowerCase on the tags the model uses.
ToLowerCase(s) ==
    CASE s = "Ok" -> "ok"
      [] s = "OK" -> "ok"
      [] s = "Err" -> "err"
      [] s = "Success" -> "success"
      [] s = "Error" -> "error"
      [] s = "Fail" -> "fail"
      [] s = "Failure" -> "failure"
      [] s = "Weird" -> "weird"
      [] s = "Inline" -> "inline"
      [] s = "Lookup" -> "lookup"
      [] s = "Legacy" -> "legacy"
      [] s = "Origins" -> "origins"
      [] s = "System" -> "system"
      [] s = "FellowshipOrigins" -> "fellowshiporigins"
      [] s = "0xABC0" -> "0xabc0"
      [] OTHER -> s

OkWords  == {"ok", "success"}
ErrWords == {"err", "error", "fail", "failure"}

\* An array of string entries as an error payload, and Array.prototype.join
\* with ", " over its formatted entries (a string entry formats to itself).
ErrArray(items) == [kind |-> "array", text |-> "", items |-> items]

RECURSIVE JoinEntries(_)
JoinEntries(items) ==
    IF items = <<>> THEN ""
    ELSE IF Len(items) = 1 THEN items[1]
    ELSE items[1] \o ", " \o JoinEntries(Tail(items))

\* A formatter that returns no text for any payload.
formatNothing(error) == ""

\* formatDispatchError: the message text of an error payload.
formatDispatchError(error) ==
    CASE error.kind = "undefined" -> "Unknown dispatch error"
      [] error.kind = "string" -> error.text
      [] error.kind = "array" -> JoinEntries(error.items)
      [] error.kind = "typed" -> error.text
      [] OTHER -> error.text

\* interpretDispatchResult: outcome plus message; message = <<>> is undefined.
Interpreted(o, m) == [outcome |-> o, message |-> m]

interpretDispatchResult(result) ==
    CASE result.shape = "null" -> Interpreted("unknown", <<>>)
      [] result.shape = "bool" ->
            Interpreted(IF result.flag THEN "success" ELSE "failure", <<>>)
      [] result.shape = "string" ->
            IF ToLowerCase(result.tag) \in OkWords
            THEN Interpreted("success", <<>>)
            ELSE IF ToLowerCase(result.tag) \in ErrWords
                 THEN Interpreted("failure", <<"Scheduler dispatch returned error">>)
                 ELSE Interpreted("unknown", <<>>)
      [] result.shape \in {"success", "ok"} ->
            IF result.flag
            THEN Interpreted("success", <<>>)
            ELSE Interpreted("failure", <<formatDispatchError(result.err)>>)
      [] result.shape = "isOk" ->
            IF result.flag
            THEN Interpreted("success", <<>>)
            ELSE Interpreted("failure", <<formatDispatchError(result.err)>>)
      [] result.shape = "Ok" -> Interpreted("success", <<>>)
      [] result.shape = "Err" ->
            Interpreted("failure", <<formatDispatchError(result.err)>>)
      [] result.shape = "type" ->
            IF ToLowerCase(result.tag) \in OkWords
            THEN Interpreted("success", <<>>)
            ELSE IF ToLowerCase(result.tag) \in ErrWords
                 THEN Interpreted("failure", <<formatDispatchError(result.err)>>)
                 ELSE Interpreted("unknown", <<>>)
      [] OTHER -> Interpreted("unknown", <<>>)

\* ------------------------------------------------------------- ParsedEvent
\* section / method as parseBlockEvent gives them; for Scheduler.Dispatched
\* `task` and `result` are the members of its data, for System.ExtrinsicFailed
\* `error` is its data.
Event(section, method, task, result, error) ==
    [section |-> section, method |-> method, task |-> task,
     result |-> result, error |-> error]

ExtrinsicFailedEvent(e) == Event("System", "ExtrinsicFailed", <<>>, ResNull, e)
ScheduledEvent          == Event("Scheduler", "Scheduled", <<>>, ResNull, ErrUndefined)
DispatchedEvent(task, r) == Event("Scheduler", "Dispatched", task, r, ErrUndefined)

IsExtrinsicFailed(e) == e.section = "System" /\ e.method = "ExtrinsicFailed"
IsDispatched(e)      == e.section = "Scheduler" /\ e.method = "Dispatched"

\* ------------------------------------------- ExecutionVerifier (the code)
\* classifyDispatches, the `continue` of its loop: an event is skipped when
\* its data carries a task array, expectedBlock is given and task[0] differs.
SkipsAlways(e, expected) == FALSE

SkipsDispatch(e, expected) ==
    /\ Len(e.task) > 0
    /\ Len(expected) > 0
    /\ e.task[1] # expected[1]

\* classifyDispatches: the events pushed to `successful`, and the entries
\* {event, message} pushed to `failed`.
ClassifiedSuccessful(dispatched, expected) ==
    SelectSeq(dispatched,
        LAMBDA e : /\ ~SkipsDispatch(e, expected)
                   /\ interpretDispatchResult(e.result).outcome = "success")

ClassifiedFailed(dispatched, expected) ==
    LET kept == SelectSeq(dispatched,
                    LAMBDA e : /\ ~SkipsDispatch(e, expected)
                               /\ interpretDispatchResult(e.result).outcome = "failure")
    IN  [i \in 1..Len(kept) |->
            [event |-> kept[i],
             message |-> interpretDispatchResult(kept[i].result).message]]

\* The two diagnostics of checkExecutionResults' last statement.
GenericNoDispatchMessage(expected) ==
    "No Scheduler.Dispatched event found - referendum was not executed"

NoDispatchMessage(expected) ==
    IF Len(expected) > 0
    THEN "No Scheduler.Dispatched event found for block "
            \o ToString(expected[1]) \o " - proposal execution did not happen"
    ELSE "No Scheduler.Dispatched event found - referendum was not executed"

Verdict(ok, errs) == [executionSucceeded |-> ok, errors |-> errs]

\* d.message || 'Scheduler dispatch failed'
FailedMessage(d) ==
    IF Len(d.message) > 0 /\ d.message[1] # ""
    THEN d.message[1]
    ELSE "Scheduler dispatch failed"

ExtrinsicFailureMessage(e) == "ExtrinsicFailed: " \o formatDispatchError(e.error)

\* The verdict with the ExtrinsicFailed events left out of the success test.
checkIgnoringExtrinsicFailures(evs, expected) ==
    LET dispatched == SelectSeq(evs, IsDispatched)
        successful == ClassifiedSuccessful(dispatched, expected)
        failed     == ClassifiedFailed(dispatched, expected)
    IN  IF Len(successful) > 0 /\ Len(failed) = 0
        THEN Verdict(TRUE, <<>>)
        ELSE Verdict(FALSE, <<NoDispatchMessage(expected)>>)

checkExecutionResults(evs, expected) ==
    LET extrinsicFailures == SelectSeq(evs, IsExtrinsicFailed)
        extrinsicFailureMessages ==
            [i \in 1..Len(extrinsicFailures) |->
                ExtrinsicFailureMessage(extrinsicFailures[i])]
        dispatched == SelectSeq(evs, IsDispatched)
        successful == ClassifiedSuccessful(dispatched, expected)
        failed     == ClassifiedFailed(dispatched, expected)
    IN  IF /\ Len(dispatched) > 0
           /\ Len(successful) > 0
           /\ Len(failed) = 0
           /\ Len(extrinsicFailures) = 0
        THEN Verdict(TRUE, <<>>)
        ELSE IF /\ Len(dispatched) > 0
                /\ (Len(failed) > 0 \/ Len(extrinsicFailures) > 0)
        THEN Verdict(FALSE, [i \in 1..Len(failed) |-> FailedMessage(failed[i])]
                                \o extrinsicFailureMessages)
        ELSE IF Len(extrinsicFailures) > 0
        THEN Verdict(FALSE, extrinsicFailureMessages)
        ELSE Verdict(FALSE, <<NoDispatchMessage(expected)>>)

\* ------------------------------------------------------ hex.ts, values
\* A binary-like value: `repr` is its JavaScript representation, `text` its
\* characters (for a string without the 0x prefix when `prefixed` is FALSE),
\* `decoded` what the chain client's txFromCallData makes of the bytes
\* (<<>> when they do not decode).
Payload(repr, text, prefixed, decoded) ==
    [repr |-> repr, text |-> text, prefixed |-> prefixed, decoded |-> decoded]

NoPayload == Payload("undefined", "", FALSE, <<>>)

BinaryPayload(hex, decoded) == Payload("binary", hex, TRUE, decoded)

DecodedCall(pallet, method, index) ==
    [pallet |-> pallet, method |-> method, index |-> index]

\* toHexString: <<>> is undefined.
toHexString(value) ==
    CASE value.repr = "undefined" -> <<>>
      [] value.repr = "string" ->
            <<IF value.prefixed THEN value.text ELSE "0x" \o value.text>>
      [] value.repr = "binary" -> <<value.text>>
      [] OTHER -> <<>>

\* toHexString(x) ?? x, as the storage converters store it.
HexOrSelf(value) ==
    IF Len(toHexString(value)) > 0
    THEN Payload("string", toHexString(value)[1], TRUE, value.decoded)
    ELSE value

\* ---------------------------------------- storage-format-converter.ts
\* A tagged value {type, value} of the chain client (fmt = "papi") or the
\* single-key map of the fork engine (fmt = "storage"); fmt = "none" is an
\* absent or non-object value.
Origin(fmt, outer, inner, nested) ==
    [fmt |-> fmt, outer |-> outer, inner |-> inner, nested |-> nested]

NoOrigin == Origin("none", "", "", FALSE)

convertOriginToStorageFormat(origin) ==
    IF origin.fmt = "papi"
    THEN Origin("storage", ToLowerCase(origin.outer), origin.inner, FALSE)
    ELSE origin

\* A call or proposal enum: Inline(value), Lookup({hash, len}), Legacy(value).
\* `value` is the inline payload or the lookup hash.
Call(fmt, type, value, len) ==
    [fmt |-> fmt, type |-> type, value |-> value, len |-> len]

NoCall == Call("none", "", NoPayload, 0)

convertCallToStorageFormat(call) ==
    IF call.fmt # "papi"
    THEN call
    ELSE CASE ToLowerCase(call.type) = "inline" ->
                Call("storage", "inline", HexOrSelf(call.value), call.len)
           [] ToLowerCase(call.type) = "lookup" ->
                Call("storage", "lookup", HexOrSelf(call.value), call.len)
           [] OTHER ->
                Call("storage", ToLowerCase(call.type), call.value, call.len)

convertProposalToStorageFormat(proposal) ==
    IF proposal.fmt # "papi"
    THEN proposal
    ELSE CASE ToLowerCase(proposal.type) = "lookup" ->
                Call("storage", "lookup", HexOrSelf(proposal.value), proposal.len)
           [] ToLowerCase(proposal.type) = "inline" ->
                Call("storage", "inline", HexOrSelf(proposal.value), proposal.len)
           [] OTHER ->
                Call("storage", ToLowerCase(proposal.type), proposal.value, proposal.len)

\* An agenda item; isNull marks a null entry of the agenda array.
Item(call, maybeId, priority, maybePeriodic, origin) ==
    [isNull |-> FALSE, call |-> call, maybeId |-> maybeId, priority |-> priority,
     maybePeriodic |-> maybePeriodic, origin |-> origin]

NullItem ==
    [isNull |-> TRUE, call |-> NoCall, maybeId |-> <<>>, priority |-> 0,
     maybePeriodic |-> <<>>, origin |-> NoOrigin]

ConvertItem(item) ==
    IF item.isNull
    THEN item
    ELSE Item(convertCallToStorageFormat(item.call), item.maybeId, item.priority,
              item.maybePeriodic, convertOriginToStorageFormat(item.origin))

\* A converter that drops the null entries of the array.
convertAgendaDroppingNulls(agendaItems) ==
    LET kept == SelectSeq(agendaItems, LAMBDA it : ~it.isNull)
    IN  [i \in 1..Len(kept) |-> ConvertItem(kept[i])]

convertAgendaToStorageFormat(agendaItems) ==
    [i \in 1..Len(agendaItems) |-> ConvertItem(agendaItems[i])]

\* ----------------------------- the fork engine's storage codec (Chopsticks)
\* What the chain client reads back after dev.setStorage stored a value given
\* in storage format: the enum variant named case-insensitively, hex strings
\* as binary values.
Capitalize(s) ==
    CASE s = "inline" -> "Inline"
      [] s = "lookup" -> "Lookup"
      [] s = "legacy" -> "Legacy"
      [] s = "origins" -> "Origins"
      [] s = "system" -> "System"
      [] s = "fellowshiporigins" -> "FellowshipOrigins"
      [] s = "ongoing" -> "Ongoing"
      [] s = "after" -> "After"
      [] OTHER -> s

ReadBackPayload(value) ==
    IF value.repr = "string"
    THEN BinaryPayload(toHexString(value)[1], value.decoded)
    ELSE value

ReadBackCall(call) ==
    IF call.fmt = "storage"
    THEN Call("papi", Capitalize(call.type), ReadBackPayload(call.value), call.len)
    ELSE call

ReadBackOrigin(origin) ==
    IF origin.fmt = "storage"
    THEN Origin("papi", Capitalize(origin.outer), origin.inner, TRUE)
    ELSE origin

ReadBackItem(item) ==
    IF item.isNull
    THEN item
    ELSE Item(ReadBackCall(item.call), item.maybeId, item.priority,
              item.maybePeriodic, ReadBackOrigin(item.origin))

ReadBackAgenda(items) == [i \in 1..Len(items) |-> ReadBackItem(items[i])]

\* ----------------------------------------------- fork-engine call log
\* One entry of a setStorage batch: `value` is <<>> for null, else <<v>>.
Entry(key, value) == [key |-> key, value |-> value]

SetStorageOp(pallet, item, entries) ==
    [op |-> "setStorage", pallet |-> pallet, item |-> item, entries |-> entries]

\* A simulator that reads the head where it should build a block.
HeadReadForBlock == [op |-> "read", pallet |-> "System", item |-> "Number", entries |-> <<>>]

NewBlockOp == [op |-> "newBlock", pallet |-> "", item |-> "", entries |-> <<>>]

ReadOp(pallet, item) ==
    [op |-> "read", pallet |-> pallet, item |-> item, entries |-> <<>>]

\* ------------------------------------------------- ReferendumSimulator
getReferendaPalletName == IF isFellowship THEN "FellowshipReferenda" ELSE "Referenda"

\* getSchedulingBlocks: relay numbering only for main governance on a fork
\* that exposes ParachainSystem.LastRelayChainBlockNumber.
\* The storage reads of one getSchedulingBlocks call.
SchedulingReads ==
    <<ReadOp("System", "Number")>>
    \o ( IF ~isFellowship /\ Len(relay) > 0
         THEN <<ReadOp("ParachainSystem", "LastRelayChainBlockNumber")>>
         ELSE <<>> )

\* A getSchedulingBlocks that takes the relay numbering whoever asks.
schedulingBlocksForAnyPallet ==
    IF Len(relay) > 0 /\ relayRead = "number"
    THEN [currentBlock |-> relay[1] - 1, targetBlock |-> relay[1]]
    ELSE [currentBlock |-> head, targetBlock |-> head + 1]

\* A getSchedulingBlocks that always takes the fork's own numbering.
schedulingBlocksByHead == [currentBlock |-> head, targetBlock |-> head + 1]

getSchedulingBlocks ==
    IF ~isFellowship /\ Len(relay) > 0 /\ relayRead = "number"
    THEN [currentBlock |-> relay[1] - 1, targetBlock |-> relay[1]]
    ELSE [currentBlock |-> head, targetBlock |-> head + 1]

isNudgeMethod(name) == name \in {"nudge_referendum", "nudgeReferendum"}

\* matchNudgeFromProperties on a call object: the only shape of the model it
\* accepts is an Inline wrapper around a pre-decoded object
\* {type: pallet, value: {type: method}}, through obj.value?.type of the
\* recursive call.
matchNudgeFromProperties(call) ==
    /\ call.fmt = "papi"
    /\ call.type = "Inline"
    /\ call.value.repr = "object"
    /\ Len(call.value.decoded) > 0
    /\ isNudgeMethod(call.value.decoded[1].method)

\* isNudgeReferendumCall: decode the inline bytes, else the structural check.
\* txFromCallData throws on a value that is not binary.
isNudgeReferendumCall(call, referendumId) ==
    \/ /\ call.fmt = "papi"
       /\ call.type = "Inline"
       /\ call.value.repr = "binary"
       /\ Len(call.value.decoded) > 0
       /\ call.value.decoded[1].pallet = getReferendaPalletName
       /\ isNudgeMethod(call.value.decoded[1].method)
       /\ call.value.decoded[1].index = referendumId
    \/ matchNudgeFromProperties(call)

\* stringify(inlineValue) of a pre-decoded object.
StringifyPayload(value) == value.text

\* String(x) of a value that toHexString does not convert.
StringOf(value) ==
    CASE value.repr = "object" -> "[object Object]"
      [] value.repr = "undefined" -> "undefined"
      [] OTHER -> value.text

\* A predicate that only ever matches on an exact hex comparison.
matchesExactHexOnly(call, proposalHash) ==
    /\ Len(proposalHash) > 0
    /\ Len(toHexString(call.value)) > 0
    /\ toHexString(call.value)[1] = proposalHash[1]

\* isProposalExecutionCall(call, proposalHash)
isProposalExecutionCall(call, proposalHash) ==
    IF call.fmt = "none"
    THEN FALSE
    ELSE IF call.type = "Lookup" \/ (call.fmt = "storage" /\ call.type = "lookup")
    THEN IF Len(proposalHash) > 0 /\ proposalHash[1] # ""
         THEN ( IF Len(toHexString(call.value)) > 0
                THEN toHexString(call.value)[1]
                ELSE StringOf(call.value) ) = proposalHash[1]
         ELSE TRUE
    ELSE IF call.type = "Inline" \/ (call.fmt = "storage" /\ call.type = "inline")
    THEN IF Len(proposalHash) = 0 \/ proposalHash[1] = ""
         THEN TRUE
         ELSE LET callDataHex ==
                    IF Len(toHexString(call.value)) > 0
                    THEN toHexString(call.value)[1]
                    ELSE IF call.value.repr = "object"
                         THEN StringifyPayload(call.value)
                         ELSE ""
              IN  \/ callDataHex = proposalHash[1]
                  \/ ToLowerCase(callDataHex) = ToLowerCase(proposalHash[1])
    ELSE FALSE

\* The match predicate findMatchingScheduledCall applies to one agenda item.
IsMatch(item, callType, referendumId, proposalHash) ==
    /\ ~item.isNull
    /\ item.call.fmt # "none"
    /\ IF callType = "nudge"
       THEN isNudgeReferendumCall(item.call, referendumId)
       ELSE isProposalExecutionCall(item.call, proposalHash)

\* Index of the first matching item of a slot, 0 if none.
SlotMatchIndex(items, callType, referendumId, proposalHash) ==
    LET hits == {i \in 1..Len(items) :
                    IsMatch(items[i], callType, referendumId, proposalHash)}
    IN  IF hits = {} THEN 0 ELSE CHOOSE i \in hits : \A j \in hits : i <= j

SlotMatches(k, callType, referendumId, proposalHash) ==
    SlotMatchIndex(agenda[k], callType, referendumId, proposalHash) > 0

\* A search that returns the last matching slot of the enumeration.
findLastMatchingScheduledCall(callType, referendumId, proposalHash) ==
    LET hits == {j \in 1..Len(enumOrder) :
                    SlotMatches(enumOrder[j], callType, referendumId, proposalHash)}
    IN  IF hits = {}
        THEN <<>>
        ELSE LET j == CHOOSE j \in hits : \A l \in hits : l <= j
                 k == enumOrder[j]
                 i == SlotMatchIndex(agenda[k], callType, referendumId, proposalHash)
             IN  <<[keyArgs |-> k, agendaItems |-> agenda[k],
                    scheduledEntry |-> agenda[k][i]]>>

\* findMatchingScheduledCall: the first match in enumeration order, <<>> = null.
findMatchingScheduledCall(callType, referendumId, proposalHash) ==
    LET hits == {j \in 1..Len(enumOrder) :
                    SlotMatches(enumOrder[j], callType, referendumId, proposalHash)}
    IN  IF hits = {}
        THEN <<>>
        ELSE LET j == CHOOSE j \in hits : \A l \in hits : j <= l
                 k == enumOrder[j]
                 i == SlotMatchIndex(agenda[k], callType, referendumId, proposalHash)
             IN  <<[keyArgs |-> k, agendaItems |-> agenda[k],
                    scheduledEntry |-> agenda[k][i]]>>

\* A not-found message that names neither the call type nor the referendum.
UnnamedCallNotFoundMessage(callType, referendumId) == "Scheduled call not found"

ScheduledCallNotFoundMessage(callType, referendumId) ==
    "Scheduled " \o callType \o " call not found for referendum " \o ToString(referendumId)

\* The Agenda batch of moveScheduledCallToNextBlock without the null entry.
AgendaBatchKeepingSource(match, targetBlock) ==
    <<Entry(targetBlock, <<convertAgendaToStorageFormat(match.agendaItems)>>)>>

\* The Agenda batch of moveScheduledCallToNextBlock.
AgendaBatch(match, targetBlock) ==
    <<Entry(match.keyArgs, <<>>),
      Entry(targetBlock, <<convertAgendaToStorageFormat(match.agendaItems)>>)>>

\* dev.setStorage applies the entries of a batch in order; null deletes a key.
RECURSIVE ApplyAgendaEntries(_, _)
ApplyAgendaEntries(ag, entries) ==
    IF Len(entries) = 0
    THEN ag
    ELSE ApplyAgendaEntries(
            [ag EXCEPT ![entries[1].key] =
                IF Len(entries[1].value) = 0
                THEN <<>>
                ELSE ReadBackAgenda(entries[1].value[1])],
            Tail(entries))

\* A relocation that leaves every alias entry where it is.
NeverRelocatesAlias(match) == FALSE

\* Whether the matched item's alias entry is relocated: it has a maybeId and
\* Scheduler.Lookup holds an entry for it.
RelocatesAlias(match) ==
    /\ Len(match.scheduledEntry.maybeId) > 0
    /\ Len(lookup[match.scheduledEntry.maybeId[1]]) > 0

\* A relocation that builds a block of its own after its writes.
MoveOpsWithBlock(match, targetBlock) ==
    SchedulingReads \o
    <<ReadOp("Scheduler", "Agenda"),
      SetStorageOp("Scheduler", "Agenda", AgendaBatch(match, targetBlock)),
      NewBlockOp>>

\* The fork-engine calls of one moveScheduledCallToNextBlock that found `match`.
MoveOps(match, targetBlock) ==
    SchedulingReads \o
    <<ReadOp("Scheduler", "Agenda"),
      SetStorageOp("Scheduler", "Agenda", AgendaBatch(match, targetBlock))>>
    \o ( IF Len(match.scheduledEntry.maybeId) > 0
         THEN <<ReadOp("Scheduler", "Lookup")>>
         ELSE <<>> )
    \o ( IF RelocatesAlias(match)
         THEN <<SetStorageOp("Scheduler", "Lookup",
                    <<Entry(match.scheduledEntry.maybeId[1], <<<<targetBlock, 0>>>>)>>)>>
         ELSE <<>> )

\* moveScheduledCallToNextBlock(referendumId, callType, proposalHash): the
\* whole call, with its effect on the fork's storage.
MoveScheduledCallToNextBlock(callType, referendumId, proposalHash) ==
    LET targetBlock == getSchedulingBlocks.targetBlock
        found == findMatchingScheduledCall(callType, referendumId, proposalHash)
    IN  IF Len(found) = 0
        THEN /\ thrown' = <<ScheduledCallNotFoundMessage(callType, referendumId)>>
             /\ moved' = <<>>
             /\ ops' = ops \o SchedulingReads \o <<ReadOp("Scheduler", "Agenda")>>
             /\ UNCHANGED <<agenda, lookup>>
        ELSE /\ thrown' = <<>>
             /\ moved' = <<targetBlock>>
             /\ ops' = ops \o MoveOps(found[1], targetBlock)
             /\ agenda' = ApplyAgendaEntries(agenda, AgendaBatch(found[1], targetBlock))
             /\ lookup' = IF RelocatesAlias(found[1])
                          THEN [lookup EXCEPT ![found[1].scheduledEntry.maybeId[1]] =
                                    <<targetBlock, 0>>]
                          ELSE lookup

\* ------------------------------------- ReferendumSimulator: forcing
FELLOWSHIP_PASSING_BARE_AYES == 100
FELLOWSHIP_PASSING_AYES == 1000

\* A ReferendumInfoFor value: {type, value} as the chain client reads it
\* (fmt = "papi"), {variant: value} as it is handed to the fork engine
\* (fmt = "storage").
RefInfo(fmt, type, value) == [fmt |-> fmt, type |-> type, value |-> value]

\* The fields buildPassingReferendumStorage reads, every one undefined: what
\* property access yields on the value of a record that is not Ongoing.
UndefinedData ==
    [track |-> <<>>, origin |-> NoOrigin, proposal |-> NoCall, enactment |-> <<>>,
     submitted |-> <<>>, submission_deposit |-> <<>>, decision_deposit |-> <<>>,
     deciding |-> <<>>, tally |-> <<>>, in_queue |-> <<>>, alarm |-> <<>>]

\* refInfo.value, as an object whose fields are read by name.
OngoingDataOf(info) == IF info.type = "Ongoing" THEN info.value ELSE UndefinedData

\* A builder that keeps the full issuance as the tally and starts the
\* decision period at currentBlock.
buildStorageAtFullIssuance(ongoingData, issuance, currentBlock) ==
    RefInfo("storage", "ongoing",
        [track |-> ongoingData.track,
         origin |-> convertOriginToStorageFormat(ongoingData.origin),
         proposal |-> convertProposalToStorageFormat(ongoingData.proposal),
         enactment |-> <<[after |-> 0]>>,
         submitted |-> ongoingData.submitted,
         submission_deposit |-> ongoingData.submission_deposit,
         decision_deposit |-> ongoingData.decision_deposit,
         deciding |-> <<[since |-> currentBlock, confirming |-> currentBlock]>>,
         tally |-> <<IF isFellowship
                     THEN [bare_ayes |-> FELLOWSHIP_PASSING_BARE_AYES,
                           ayes |-> FELLOWSHIP_PASSING_BARE_AYES,
                           nays |-> 0]
                     ELSE [ayes |-> ToString(issuance),
                           nays |-> "0",
                           support |-> ToString(issuance)]>>,
         in_queue |-> <<ongoingData.in_queue = <<TRUE>>>>,
         alarm |-> <<<<currentBlock + 1, <<currentBlock + 1, 0>>>>>>])

\* buildPassingReferendumStorage(ongoingData, totalIssuance, currentBlock)
buildPassingReferendumStorage(ongoingData, issuance, currentBlock) ==
    LET originForStorage == convertOriginToStorageFormat(ongoingData.origin)
        proposalForStorage == convertProposalToStorageFormat(ongoingData.proposal)
        decidingSince == currentBlock - 1
        decidingConfirming == currentBlock - 1
        tally == IF isFellowship
                 THEN [bare_ayes |-> FELLOWSHIP_PASSING_BARE_AYES,
                       ayes |-> FELLOWSHIP_PASSING_AYES,
                       nays |-> 0]
                 ELSE [ayes |-> ToString(issuance - 1),
                       nays |-> "0",
                       support |-> ToString(issuance - 1)]
    IN  RefInfo("storage", "ongoing",
            [track |-> ongoingData.track,
             origin |-> originForStorage,
             proposal |-> proposalForStorage,
             enactment |-> <<[after |-> 0]>>,
             submitted |-> ongoingData.submitted,
             submission_deposit |-> ongoingData.submission_deposit,
             decision_deposit |-> ongoingData.decision_deposit,
             deciding |-> <<[since |-> decidingSince, confirming |-> decidingConfirming]>>,
             tally |-> <<tally>>,
             in_queue |-> <<ongoingData.in_queue = <<TRUE>>>>,
             alarm |-> <<<<currentBlock + 1, <<currentBlock + 1, 0>>>>>>])

\* applyPassingState: the record types it refuses.
RejectsNoState(type) == FALSE

RejectsState(type) == type # "Ongoing" /\ type \notin {"Approved", "approved"}

ReferendumNotFoundMessage(referendumId, palletName) ==
    "Referendum " \o ToString(referendumId) \o " not found in " \o palletName
        \o " pallet in Chopsticks instance"

NotOngoingMessage(referendumId, actualState) ==
    "Referendum " \o ToString(referendumId)
        \o " is not in Ongoing state (current state: " \o actualState \o ")"

\* The reads applyPassingState makes before it writes.
ForcingReads ==
    <<ReadOp("Balances", "TotalIssuance")>> \o SchedulingReads

\* SimulationResult; blockExecuted = <<>> is undefined.
SimulationResult(success, executionSucceeded, evs, errs, blockExecuted) ==
    [success |-> success, executionSucceeded |-> executionSucceeded, events |-> evs,
     errors |-> errs, blockExecuted |-> blockExecuted]

\* executePreCall: the agenda item it injects.
PreCallItem ==
    Item(Call("storage", "Inline", Payload("string", "0x0001", TRUE, <<>>), 0),
         <<>>, 0, <<>>, Origin("storage", "System", "Root", FALSE))

\* ------------------------- the fork's storage codec for referendum records
\* The decimal string the fork engine decodes into a balance.
ParseDecimal(text) == CHOOSE n \in 0..MaxIssuance : ToString(n) = text

ReadBackTally(tally) ==
    IF "support" \in DOMAIN tally
    THEN [ayes |-> ParseDecimal(tally.ayes), nays |-> ParseDecimal(tally.nays),
          support |-> ParseDecimal(tally.support)]
    ELSE tally

ReadBackReferendum(info) ==
    RefInfo("papi", Capitalize(info.type),
        [info.value EXCEPT
            !.origin = ReadBackOrigin(@),
            !.proposal = ReadBackCall(@),
            !.enactment = <<[type |-> "After", value |-> @[1].after]>>,
            !.tally = <<ReadBackTally(@[1])>>])

\* Whether the fork engine can encode the record: the fields the runtime type
\* requires are there.
Encodable(info) ==
    /\ Len(info.value.track) > 0
    /\ info.value.origin.fmt # "none"
    /\ info.value.proposal.fmt # "none"
    /\ Len(info.value.submitted) > 0

\* ------------------------------------------------ one block of the fork
\* newBlock: the head advances by one and so does the relay number; the
\* scheduler services every agenda slot up to its clock.
HeadAfterBlock == head + 1

RelayAfterBlock == IF Len(relay) > 0 THEN <<relay[1] + 1>> ELSE <<>>

NowAfterBlock == IF Len(relay) > 0 THEN relay[1] + 1 ELSE head + 1

ServicedAgenda(ag) == [k \in DOMAIN ag |-> IF k <= NowAfterBlock THEN <<>> ELSE ag[k]]

ServicedLookup(lk) ==
    [a \in DOMAIN lk |->
        IF Len(lk[a]) > 0 /\ lk[a][1] <= NowAfterBlock THEN <<>> ELSE lk[a]]

\* The block dispatches a nudge of the referendum under test.
NudgeDue(ag) ==
    \E k \in DOMAIN ag :
        /\ k <= NowAfterBlock
        /\ \E i \in 1..Len(ag[k]) :
              /\ ~ag[k][i].isNull
              /\ Len(ag[k][i].call.value.decoded) > 0
              /\ ag[k][i].call.value.decoded[1].pallet = getReferendaPalletName
              /\ ag[k][i].call.value.decoded[1].index = referendum.id

\* The record is Ongoing and already past its confirmation period.
IsPassing(rec) ==
    /\ Len(rec) > 0
    /\ rec[1].type = "Ongoing"
    /\ Len(rec[1].value.deciding) > 0

ApprovedInfo == RefInfo("papi", "Approved", UndefinedData)

\* The enactment task the runtime schedules when it approves the referendum.
EnactmentItem(info) ==
    Item(info.value.proposal, <<"alias-enact">>, 63, <<>>, info.value.origin)

\* The state of the fork after one block built on agenda ag, lookup lk and
\* record rec; `approves` says whether the block approves the referendum,
\* which then schedules the enactment at block enactAt.
AfterBlock(ag, lk, rec, approves, enactAt) ==
    /\ head' = HeadAfterBlock
    /\ relay' = RelayAfterBlock
    /\ IF approves
       THEN /\ agenda' = [ServicedAgenda(ag) EXCEPT
                            ![enactAt] = Append(@, EnactmentItem(rec[1]))]
            /\ lookup' = [ServicedLookup(lk) EXCEPT
                            !["alias-enact"] = <<enactAt, Len(ServicedAgenda(ag)[enactAt])>>]
            /\ refInfo' = <<ApprovedInfo>>
       ELSE /\ agenda' = ServicedAgenda(ag)
            /\ lookup' = ServicedLookup(lk)
            /\ refInfo' = rec

\* Whether a block built on ag and rec may approve the referendum.
MayApprove(ag, rec) == {FALSE} \cup (IF NudgeDue(ag) /\ IsPassing(rec) THEN {TRUE} ELSE {})

\* The Scheduler.Dispatched events of the block: one per item serviced, in
\* key and index order, each with result r.
SlotEvents(k, items, r) ==
    LET live == SelectSeq([i \in 1..Len(items) |-> i], LAMBDA i : ~items[i].isNull)
    IN  [j \in 1..Len(live) |-> DispatchedEvent(<<k, live[j] - 1>>, r)]

RECURSIVE DispatchedIn(_, _, _)
DispatchedIn(keys, ag, r) ==
    IF keys = {}
    THEN <<>>
    ELSE LET k == CHOOSE k \in keys : \A j \in keys : k <= j
         IN  SlotEvents(k, ag[k], r) \o DispatchedIn(keys \ {k}, ag, r)

BlockEvents(ag, r) == DispatchedIn({k \in DOMAIN ag : k <= NowAfterBlock}, ag, r)

\* ------------------------------------------------------- idle values
\* The values of the variables an operation under test does not use.
IdleVerify ==
    /\ events = <<>>
    /\ expectedBlock = <<>>
    /\ verdict = <<>>

IdleArgs ==
    /\ isFellowship = FALSE
    /\ referendum = [id |-> 0, status |-> "", proposalHash |-> <<>>]
    /\ moveArgs = [callType |-> "", proposalHash |-> <<>>]
    /\ preCall = FALSE

IdleFork ==
    /\ head = 0
    /\ relay = <<>>
    /\ relayRead = "number"
    /\ totalIssuance = 0
    /\ refInfo = <<>>
    /\ agenda = <<>>
    /\ enumOrder = <<>>
    /\ lookup = <<>>

IdleRun ==
    /\ ops = <<>>
    /\ pc = ""
    /\ moved = <<>>
    /\ thrown = <<>>
    /\ forcedFrom = ""
    /\ outcome = <<>>

IdleCoord ==
    /\ request = <<>>
    /\ forks = <<>>
    /\ clients = <<>>
    /\ managers = <<>>
    /\ steps = <<>>
    /\ unhandled = {}
    /\ warnings = <<>>
    /\ todo = <<>>

IdlePoll ==
    /\ chainHead = <<>>
    /\ headBefore = <<>>
    /\ elapsed = 0
    /\ attempt = 0
    /\ maxAttempts = 0

\* ---------------------------------------- SpecVerify: checkExecutionResults
\* The blocks a task or an expectedBlock may name, and the event universe the
\* inputs are drawn from.
VerifyBlocks == {499, 500}

VerifyResults ==
    { ResNull,
      ResSuccess(TRUE, ErrUndefined),
      ResSuccess(FALSE, ErrTyped("Module: {index:21}")),
      ResBool(FALSE),
      ResTyped("Weird", ErrUndefined) }

VerifyTasks == {<<>>} \cup {<<b, 0>> : b \in VerifyBlocks}

VerifyEvents ==
    { ExtrinsicFailedEvent(ErrObject("{dispatch_error:BadOrigin}")), ScheduledEvent }
    \cup { DispatchedEvent(t, r) : t \in VerifyTasks, r \in VerifyResults }

VerifyInit ==
    /\ phase = "verify"
    /\ events \in SeqsUpTo(VerifyEvents, MaxEvents)
    /\ expectedBlock \in {<<>>} \cup {<<b>> : b \in VerifyBlocks}
    /\ verdict = <<>>
    /\ IdleArgs
    /\ IdleFork
    /\ IdleRun
    /\ IdleCoord
    /\ IdlePoll

\* checkExecutionResults(events, referendumId, expectedBlock)
CheckExecutionResults ==
    /\ phase = "verify"
    /\ verdict = <<>>
    /\ verdict' = <<checkExecutionResults(events, expectedBlock)>>
    /\ UNCHANGED <<phase, coordVars, pollVars, events, expectedBlock, forkVars, argVars, runVars>>

VerifyNext == CheckExecutionResults

SpecVerify == VerifyInit /\ [][VerifyNext]_vars

\* ------------------------------------------------------ claims C1 .. C3
Checked == phase = "verify" /\ verdict # <<>>

Outcome(e) == interpretDispatchResult(e.result).outcome

\* A Dispatched event the expected-block filter keeps: no expectedBlock is
\* given, or the event carries no task array, or its task block is the
\* expected one.
Authoritative(e) ==
    /\ IsDispatched(e)
    /\ \/ Len(expectedBlock) = 0
       \/ Len(e.task) = 0
       \/ e.task[1] = expectedBlock[1]

\* A Dispatched event whose task block is the expected one.
TaskMatches(e) ==
    IsDispatched(e) /\ Len(e.task) > 0 /\ Len(expectedBlock) > 0
        /\ e.task[1] = expectedBlock[1]

\* A Dispatched event that carries a task array naming another block.
TaskMismatches(e) ==
    IsDispatched(e) /\ Len(e.task) > 0 /\ Len(expectedBlock) > 0
        /\ e.task[1] # expectedBlock[1]

EventsAt == {events[i] : i \in 1..Len(events)}

\* C1: checkExecutionResults returns executionSucceeded = true iff the
\* events hold at least one authoritative Dispatched event classified as
\* success, no authoritative Dispatched event classified as failure, and no
\* System.ExtrinsicFailed event (authoritative: kept by the filter).
C1_VerdictIff ==
    Checked =>
        ( verdict[1].executionSucceeded
          <=> /\ \E e \in EventsAt : Authoritative(e) /\ Outcome(e) = "success"
              /\ ~ \E e \in EventsAt : Authoritative(e) /\ Outcome(e) = "failure"
              /\ ~ \E e \in EventsAt : IsExtrinsicFailed(e) )

\* Witness of C1: a success verdict on a block that also holds a failed
\* dispatch of another block.
C1_Witness ==
    /\ Checked
    /\ verdict[1].executionSucceeded
    /\ \E e \in EventsAt : TaskMismatches(e) /\ Outcome(e) = "failure"

\* C2 as stated: with expectedBlock given, only the Dispatched events whose
\* task block equals expectedBlock contribute to the verdict - the verdict
\* is the verdict of the list without every other Dispatched event.
C2_OnlyMatchingTasksCount ==
    (Checked /\ Len(expectedBlock) > 0) =>
        verdict[1] = checkExecutionResults(
            SelectSeq(events, LAMBDA e : ~IsDispatched(e) \/ TaskMatches(e)),
            expectedBlock)

\* C2 amended: with expectedBlock given, a Dispatched event that carries a
\* task array naming another block is excluded from the verdict, so a block
\* whose only successful dispatches name other blocks yields
\* executionSucceeded = false; an event without a task array is not filtered.
C2_MismatchingTasksExcluded ==
    (Checked /\ Len(expectedBlock) > 0) =>
        /\ verdict[1] = checkExecutionResults(
               SelectSeq(events, LAMBDA e : ~TaskMismatches(e)), expectedBlock)
        /\ (\A e \in EventsAt :
                (IsDispatched(e) /\ Outcome(e) = "success") => TaskMismatches(e))
           => ~verdict[1].executionSucceeded

\* Witness of C2: the only successful dispatch names another block and the
\* verdict is false.
C2_Witness ==
    /\ Checked
    /\ \E e \in EventsAt : TaskMismatches(e) /\ Outcome(e) = "success"
    /\ \A e \in EventsAt :
            (IsDispatched(e) /\ Outcome(e) = "success") => TaskMismatches(e)
    /\ ~verdict[1].executionSucceeded

NoAuthoritativeDispatch == ~ \E e \in EventsAt : Authoritative(e)

IsNoDispatchVerdict ==
    /\ ~verdict[1].executionSucceeded
    /\ verdict[1].errors = <<NoDispatchMessage(expectedBlock)>>
    /\ expectedBlock = <<500>> =>
          verdict[1].errors = <<"No Scheduler.Dispatched event found for block 500 - proposal execution did not happen">>

\* C3 as stated: whenever there is no authoritative Dispatched event the
\* result is executionSucceeded = false with the no-dispatch diagnostic.
C3_NoDispatchDiagnostic ==
    (Checked /\ NoAuthoritativeDispatch) => IsNoDispatchVerdict

\* C3 amended: whenever there is no authoritative Dispatched event and no
\* System.ExtrinsicFailed event, the result is executionSucceeded = false
\* with the no-dispatch diagnostic, block-qualified when expectedBlock is given.
C3_NoDispatchNoFailureDiagnostic ==
    (Checked /\ NoAuthoritativeDispatch
        /\ ~ \E e \in EventsAt : IsExtrinsicFailed(e)) => IsNoDispatchVerdict

\* Witness of C3: expectedBlock = 500, the only dispatch names block 499.
C3_Witness ==
    /\ Checked
    /\ expectedBlock = <<500>>
    /\ \E e \in EventsAt : TaskMismatches(e)
    /\ NoAuthoritativeDispatch
    /\ verdict[1].errors = <<"No Scheduler.Dispatched event found for block 500 - proposal execution did not happen">>

\* ------------------------------- SpecMove: moveScheduledCallToNextBlock
\* The referendum under test and the other referenda of the chain.
TestedRefs == {1840}
OtherRefs  == {1841}

ProposalHashText == "0xabc0"
OtherHashText    == "0xdef0"

NudgeCall(pallet, r) ==
    Call("papi", "Inline",
         BinaryPayload((IF pallet = "Referenda" THEN "0x1502" ELSE "0x3d02") \o ToString(r),
                       <<DecodedCall(pallet, "nudge_referendum", r)>>),
         0)

LookupCall(hash) == Call("papi", "Lookup", BinaryPayload(hash, <<>>), 42)

RemarkCall ==
    Call("papi", "Inline",
         BinaryPayload("0x0001", <<DecodedCall("System", "remark", 0)>>), 0)

RootOrigin      == Origin("papi", "System", "Root", TRUE)
TreasurerOrigin == Origin("papi", "Origins", "Treasurer", TRUE)

AliasIds == {"alias-enact", "alias-other"}

\* The agenda items the chain may hold.
MoveItems ==
    { Item(NudgeCall("Referenda", r), <<>>, 128, <<>>, RootOrigin)
        : r \in TestedRefs \cup OtherRefs }
    \cup { Item(NudgeCall("FellowshipReferenda", r), <<>>, 128, <<>>, RootOrigin)
        : r \in TestedRefs }
    \cup { Item(LookupCall(ProposalHashText), <<"alias-enact">>, 63, <<>>, TreasurerOrigin),
           Item(LookupCall(OtherHashText), <<"alias-other">>, 63, <<>>, TreasurerOrigin),
           Item(RemarkCall, <<>>, 63, <<>>, TreasurerOrigin),
           NullItem }

\* The agenda keys populated before a call: the two possible target blocks
\* (head + 1, and the last relay block) and a later block.
MoveHead  == {10}
MoveRelay == {<<>>, <<21>>}
MoveKeys  == {11, 21, 30}

\* An agenda given as a flat list of <<item, key>> pairs, slot order kept.
AgendaOf(flat, keys) ==
    [k \in keys |->
        LET sel == SelectSeq(flat, LAMBDA p : p[2] = k)
        IN  [i \in 1..Len(sel) |-> sel[i][1]]]

\* Scheduler.Lookup as the runtime keeps it: the address of the named item.
LookupOf(ag) ==
    [a \in AliasIds |->
        LET at == {<<k, i>> \in (DOMAIN ag) \X (1..MaxItems + 1) :
                        /\ i <= Len(ag[k])
                        /\ ag[k][i].maybeId = <<a>>}
        IN  IF at = {}
            THEN <<>>
            ELSE LET p == CHOOSE p \in at :
                            \A q \in at : p[1] < q[1] \/ (p[1] = q[1] /\ p[2] <= q[2])
                 IN  <<p[1], p[2] - 1>>]

PermSeqs(S) ==
    {f \in [1..Cardinality(S) -> S] : \A i, j \in 1..Cardinality(S) : i # j => f[i] # f[j]}

MoveCalls ==
    { [callType |-> "nudge", proposalHash |-> <<>>],
      [callType |-> "execute", proposalHash |-> <<>>],
      [callType |-> "execute", proposalHash |-> <<ProposalHashText>>] }

MoveInit ==
    /\ phase = "move"
    /\ IdleVerify
    /\ IdleCoord
    /\ IdlePoll
    /\ isFellowship \in BOOLEAN
    /\ \E r \in TestedRefs :
          referendum = [id |-> r, status |-> "ongoing", proposalHash |-> <<ProposalHashText>>]
    /\ moveArgs \in MoveCalls
    /\ preCall = FALSE
    /\ head \in MoveHead
    /\ relay \in MoveRelay
    /\ relayRead = "number"
    /\ totalIssuance = 0
    /\ refInfo = <<>>
    /\ \E flat \in SeqsUpTo(MoveItems \X MoveKeys, MaxItems) :
          /\ agenda = AgendaOf(flat, MoveKeys)
          /\ lookup = LookupOf(AgendaOf(flat, MoveKeys))
    /\ enumOrder \in PermSeqs(MoveKeys)
    /\ ops = <<>>
    /\ pc = "call"
    /\ moved = <<>>
    /\ thrown = <<>>
    /\ forcedFrom = ""
    /\ outcome = <<>>

\* One call moveScheduledCallToNextBlock(referendum.id, callType, proposalHash).
MoveCall ==
    /\ phase = "move"
    /\ pc = "call"
    /\ MoveScheduledCallToNextBlock(moveArgs.callType, referendum.id, moveArgs.proposalHash)
    /\ pc' = "returned"
    /\ UNCHANGED <<phase, coordVars, pollVars, verifyVars, argVars, head, relay, relayRead, totalIssuance, refInfo,
                   enumOrder, forcedFrom, outcome>>

MoveNext == MoveCall

SpecMove == MoveInit /\ [][MoveNext]_vars

\* ------------------------------------------------------ claims C4 .. C7
\* The fork-engine calls the step under way adds to the log.
NewOps == SubSeq(ops', Len(ops) + 1, Len(ops'))

IsAgendaWrite(o) == o.op = "setStorage" /\ o.pallet = "Scheduler" /\ o.item = "Agenda"

IsWrite(o) == o.op = "setStorage"

AgendaWritesOf(log) == SelectSeq(log, IsAgendaWrite)

\* A call of moveScheduledCallToNextBlock is under way in this step.
MoveStep == phase = "move" /\ pc = "call" /\ pc' = "returned"

Matches(item) ==
    IsMatch(item, moveArgs.callType, referendum.id, moveArgs.proposalHash)

HoldsMatch(items) == \E i \in 1..Len(items) : Matches(items[i])

\* The key of the first slot, in enumeration order, that holds a matching item.
IsFirstMatchingKey(k) ==
    \E j \in 1..Len(enumOrder) :
        /\ enumOrder[j] = k
        /\ HoldsMatch(agenda[k])
        /\ \A l \in 1..(j - 1) : ~HoldsMatch(agenda[enumOrder[l]])

\* The value a batch writes under key k, <<>> if it holds no such entry.
WrittenUnder(batch, k) ==
    LET at == {n \in 1..Len(batch) : batch[n].key = k /\ Len(batch[n].value) > 0}
    IN  IF at = {} THEN <<>> ELSE batch[CHOOSE n \in at : \A m \in at : m <= n].value[1]

NullsKey(batch, k) ==
    \E n \in 1..Len(batch) : batch[n].key = k /\ Len(batch[n].value) = 0

\* The identity of an item for the scheduler, whatever the format it is in.
ItemKey(item) ==
    <<item.isNull, ToLowerCase(item.call.type),
      IF Len(toHexString(item.call.value)) > 0
      THEN toHexString(item.call.value)[1] ELSE item.call.value.text,
      item.maybeId, item.priority>>

\* C4: a relocation never splits a slot - every item of the matched item's
\* slot is written under targetBlock by the same write, in the same relative
\* order, and is what the fork holds at targetBlock afterwards.
C4_SlotMovesWhole ==
    [][ (MoveStep /\ \E k \in DOMAIN agenda : HoldsMatch(agenda[k])) =>
            \E k \in DOMAIN agenda :
                /\ IsFirstMatchingKey(k)
                /\ Len(AgendaWritesOf(NewOps)) = 1
                /\ LET batch == AgendaWritesOf(NewOps)[1].entries
                       written == WrittenUnder(batch, getSchedulingBlocks.targetBlock)
                   IN  /\ Len(written) = Len(agenda[k])
                       /\ \A i \in 1..Len(agenda[k]) :
                             ItemKey(written[i]) = ItemKey(agenda[k][i])
                /\ agenda'[getSchedulingBlocks.targetBlock] = agenda[k]
      ]_vars

\* Witness of C4: a relocated slot of two different items, the matched one
\* second.
C4_Witness ==
    /\ phase = "move" /\ pc = "returned" /\ Len(moved) > 0
    /\ Len(agenda[moved[1]]) = 2
    /\ ~Matches(agenda[moved[1]][1])
    /\ Matches(agenda[moved[1]][2])

\* C5 as stated: the batch that writes the slot under targetBlock also nulls
\* the source key, and afterwards nothing is scheduled at the source block.
C5_SourceNulledAndEmpty ==
    [][ (MoveStep /\ \E k \in DOMAIN agenda : HoldsMatch(agenda[k])) =>
            \E k \in DOMAIN agenda :
                /\ IsFirstMatchingKey(k)
                /\ Len(AgendaWritesOf(NewOps)) = 1
                /\ NullsKey(AgendaWritesOf(NewOps)[1].entries, k)
                /\ Len(WrittenUnder(AgendaWritesOf(NewOps)[1].entries,
                                    getSchedulingBlocks.targetBlock)) > 0
                /\ agenda'[k] = <<>>
      ]_vars

\* C5 amended: the single batch nulls the source key before it writes the
\* slot under targetBlock; afterwards nothing is scheduled at the source
\* block when it differs from targetBlock, and when the source block is
\* targetBlock the slot is still scheduled there.
C5_SourceNulledInSameBatch ==
    [][ (MoveStep /\ \E k \in DOMAIN agenda : HoldsMatch(agenda[k])) =>
            \E k \in DOMAIN agenda :
                /\ IsFirstMatchingKey(k)
                /\ Len(AgendaWritesOf(NewOps)) = 1
                /\ NullsKey(AgendaWritesOf(NewOps)[1].entries, k)
                /\ Len(WrittenUnder(AgendaWritesOf(NewOps)[1].entries,
                                    getSchedulingBlocks.targetBlock)) > 0
                /\ k # getSchedulingBlocks.targetBlock => agenda'[k] = <<>>
                /\ k = getSchedulingBlocks.targetBlock => agenda'[k] = agenda[k]
      ]_vars

\* Witness of C5: a relocation whose log entry nulls a source key that is
\* not the target, and nothing is left at that key.
C5_Witness ==
    /\ phase = "move" /\ pc = "returned" /\ Len(moved) > 0
    /\ \E n \in 1..Len(ops) :
          /\ IsAgendaWrite(ops[n])
          /\ \E k \in DOMAIN agenda :
                /\ k # moved[1]
                /\ NullsKey(ops[n].entries, k)
                /\ agenda[k] = <<>>
                /\ Len(agenda[moved[1]]) > 0

\* C6: one call relocates exactly one slot, the slot of the first matching
\* item in enumeration order, even when several slots hold matching items:
\* every other slot but the target is left as it was.
C6_ExactlyOneSlot ==
    [][ (MoveStep /\ \E k \in DOMAIN agenda : HoldsMatch(agenda[k])) =>
            \E k \in DOMAIN agenda :
                /\ IsFirstMatchingKey(k)
                /\ Len(AgendaWritesOf(NewOps)) = 1
                /\ Len(AgendaWritesOf(NewOps)[1].entries) = 2
                /\ NullsKey(AgendaWritesOf(NewOps)[1].entries, k)
                /\ agenda'[getSchedulingBlocks.targetBlock] = agenda[k]
                /\ \A other \in DOMAIN agenda :
                      other \notin {k, getSchedulingBlocks.targetBlock}
                          => agenda'[other] = agenda[other]
      ]_vars

\* Witness of C6: after a relocation a second slot, not the target, still
\* holds a matching item.
C6_Witness ==
    /\ phase = "move" /\ pc = "returned" /\ Len(moved) > 0
    /\ HoldsMatch(agenda[moved[1]])
    /\ \E other \in DOMAIN agenda : other # moved[1] /\ HoldsMatch(agenda[other])

\* C7: if no item of any slot satisfies the match predicate the call fails
\* with the scheduled-call-not-found error naming callType and referendumId,
\* and it writes no storage.
C7_NotFoundNoWrite ==
    (phase = "move" /\ pc = "returned"
        /\ ~ \E k \in DOMAIN agenda : HoldsMatch(agenda[k])) =>
        /\ Len(thrown) = 1
        /\ moved = <<>>
        /\ (moveArgs.callType = "nudge" /\ referendum.id = 1840) =>
              thrown[1] = "Scheduled nudge call not found for referendum 1840"
        /\ (moveArgs.callType = "execute" /\ referendum.id = 1840) =>
              thrown[1] = "Scheduled execute call not found for referendum 1840"
        /\ \A n \in 1..Len(ops) : ~IsWrite(ops[n])

\* Witness of C7: a failed call on an agenda that holds items, none matching.
C7_Witness ==
    /\ phase = "move" /\ pc = "returned"
    /\ Len(thrown) = 1
    /\ \E k \in DOMAIN agenda : Len(agenda[k]) > 1
    /\ ~ \E k \in DOMAIN agenda : HoldsMatch(agenda[k])

\* ------------------------------------------------- SpecSim: simulate
\* The fork a simulation starts from: head and relay numbers, the agenda keys
\* that can come into play over its four blocks, the block at which the
\* runtime schedules an enactment, and the record of the referendum.
SimKeys == (11..14) \cup (21..24) \cup {30}

EnactKeys == {30}

SimIssuance == {1, MaxIssuance}

TerminalTypes == {"Approved", "Rejected", "Cancelled", "TimedOut", "Killed"}

OngoingInfo ==
    RefInfo("papi", "Ongoing",
        [track |-> <<11>>, origin |-> TreasurerOrigin,
         proposal |-> LookupCall(ProposalHashText),
         enactment |-> <<[type |-> "After", value |-> 100]>>,
         submitted |-> <<5>>, submission_deposit |-> <<"deposit">>,
         decision_deposit |-> <<>>, deciding |-> <<>>,
         tally |-> <<IF isFellowship
                     THEN [bare_ayes |-> 0, ayes |-> 0, nays |-> 0]
                     ELSE [ayes |-> 0, nays |-> 0, support |-> 0]>>,
         in_queue |-> <<FALSE>>,
         alarm |-> <<<<30, <<30, 0>>>>>>])

\* The agendas the fork may hold when the simulation starts.
SimAgendas ==
    { AgendaOf(flat, SimKeys) : flat \in
        { <<>>,
          << <<Item(NudgeCall("Referenda", 1840), <<>>, 128, <<>>, RootOrigin), 30>> >>,
          << <<Item(NudgeCall("FellowshipReferenda", 1840), <<>>, 128, <<>>, RootOrigin), 30>> >>,
          << <<Item(NudgeCall("Referenda", 1840), <<>>, 128, <<>>, RootOrigin), 11>> >>,
          << <<Item(RemarkCall, <<>>, 63, <<>>, TreasurerOrigin), 30>>,
             <<Item(NudgeCall("Referenda", 1840), <<>>, 128, <<>>, RootOrigin), 30>> >>,
          << <<Item(NudgeCall("Referenda", 1841), <<>>, 128, <<>>, RootOrigin), 21>>,
             <<Item(NudgeCall("FellowshipReferenda", 1840), <<>>, 128, <<>>, RootOrigin), 30>> >> } }

\* The keys of S in ascending order.
RECURSIVE Ascending(_)
Ascending(S) ==
    IF S = {}
    THEN <<>>
    ELSE LET k == CHOOSE k \in S : \A j \in S : k <= j
         IN  <<k>> \o Ascending(S \ {k})

\* The keys of S in descending order.
RECURSIVE Descending(_)
Descending(S) ==
    IF S = {}
    THEN <<>>
    ELSE LET k == CHOOSE k \in S : \A j \in S : k >= j
         IN  <<k>> \o Descending(S \ {k})

\* The results a dispatch of the executing block may carry.
SimResults == { ResTyped("Ok", ErrUndefined), ResTyped("Err", ErrTyped("Module: {index:21}")) }

\* What the record may be after the block that dispatched the pre-call, an
\* arbitrary call.
PreCallRecords(rec) ==
    {rec, <<>>} \cup { <<RefInfo("papi", t, UndefinedData)>> : t \in TerminalTypes }

SimInit ==
    /\ phase = "sim"
    /\ IdleVerify
    /\ IdleCoord
    /\ IdlePoll
    /\ isFellowship \in BOOLEAN
    /\ \E r \in TestedRefs, st \in {"ongoing", "approved"} :
          /\ referendum = [id |-> r, status |-> st, proposalHash |-> <<ProposalHashText>>]
          /\ refInfo = IF st = "ongoing" THEN <<OngoingInfo>> ELSE <<ApprovedInfo>>
    /\ moveArgs = [callType |-> "", proposalHash |-> <<>>]
    /\ preCall \in BOOLEAN
    /\ head \in MoveHead
    /\ relay \in MoveRelay
    /\ relayRead = "number"
    /\ totalIssuance \in SimIssuance
    /\ agenda \in SimAgendas
    /\ lookup = LookupOf(agenda)
    /\ enumOrder \in {Ascending(SimKeys), Descending(SimKeys)}
    /\ ops = <<>>
    /\ pc = "start"
    /\ moved = <<>>
    /\ thrown = <<>>
    /\ forcedFrom = ""
    /\ outcome = <<>>

\* A catch block that returns the initial result without the error's message.
SimulationFailsSilently(message, newOps) ==
    /\ thrown' = <<message>>
    /\ ops' = ops \o newOps
    /\ pc' = "done"
    /\ outcome' = <<SimulationResult(FALSE, FALSE, <<>>, <<>>, <<>>)>>

\* simulate's catch block: the error ends the run.
SimulationFails(message, newOps) ==
    /\ thrown' = <<message>>
    /\ ops' = ops \o newOps
    /\ pc' = "done"
    /\ outcome' = <<SimulationResult(FALSE, FALSE, <<>>, <<message>>, <<>>)>>

\* The specifications that run simulate: the simulator on its own, and the
\* simulator as the coordinator calls it for a governance referendum.
SimPhases == {"sim", "precall"}

\* simulate, up to the call of forceReferendumExecution.
Simulate ==
    /\ phase \in SimPhases
    /\ pc = "start"
    /\ IF referendum.status = "approved"
       THEN /\ pc' = "done"
            /\ outcome' = <<SimulationResult(TRUE, TRUE, <<>>, <<>>, <<0>>)>>
       ELSE /\ pc' = IF preCall THEN "preCall" ELSE "apply"
            /\ outcome' = outcome
    /\ UNCHANGED <<phase, coordVars, pollVars, verifyVars, forkVars, argVars, ops, moved, thrown, forcedFrom>>

\* executePreCall
ExecutePreCall ==
    /\ phase \in SimPhases
    /\ pc = "preCall"
    /\ LET nextBlock == getSchedulingBlocks.targetBlock
           batch == <<Entry(nextBlock, << <<PreCallItem>> >>)>>
       IN  /\ ops' = ops \o SchedulingReads \o <<
                              SetStorageOp("Scheduler", "agenda", batch),
                              NewBlockOp,
                              ReadOp("System", "Number"),
                              ReadOp("System", "Events")>>
           /\ \E rec \in PreCallRecords(refInfo) :
                 AfterBlock(ApplyAgendaEntries(agenda, batch), lookup, rec, FALSE, 30)
    /\ pc' = "apply"
    /\ UNCHANGED <<phase, coordVars, pollVars, verifyVars, argVars, relayRead, totalIssuance, enumOrder,
                   moved, thrown, forcedFrom, outcome>>

\* applyPassingState
ApplyPassingState ==
    /\ phase \in SimPhases
    /\ pc = "apply"
    /\ LET palletName == getReferendaPalletName
           read == <<ReadOp(palletName, "ReferendumInfoFor")>>
       IN  IF Len(refInfo) = 0
           THEN /\ SimulationFails(ReferendumNotFoundMessage(referendum.id, palletName), read)
                /\ UNCHANGED <<forkVars, forcedFrom>>
           ELSE IF RejectsState(refInfo[1].type)
           THEN /\ SimulationFails(NotOngoingMessage(referendum.id, refInfo[1].type), read)
                /\ UNCHANGED <<forkVars, forcedFrom>>
           ELSE LET modifiedRefInfo ==
                        buildPassingReferendumStorage(OngoingDataOf(refInfo[1]),
                            totalIssuance, getSchedulingBlocks.currentBlock)
                    write == SetStorageOp(palletName, "ReferendumInfoFor",
                                 <<Entry(referendum.id, <<modifiedRefInfo>>)>>)
                IN  /\ forcedFrom' = refInfo[1].type
                    /\ \/ /\ ~Encodable(modifiedRefInfo)
                          /\ SimulationFails("Cannot encode ReferendumInfoFor",
                                             read \o ForcingReads \o <<write>>)
                          /\ UNCHANGED forkVars
                       \/ /\ ops' = ops \o read \o ForcingReads
                                    \o <<write, NewBlockOp, ReadOp(palletName, "ReferendumInfoFor")>>
                          /\ \E approves \in MayApprove(agenda, <<ReadBackReferendum(modifiedRefInfo)>>),
                                enactAt \in EnactKeys :
                                AfterBlock(agenda, lookup, <<ReadBackReferendum(modifiedRefInfo)>>,
                                           approves, enactAt)
                          /\ pc' = "moveNudge"
                          /\ UNCHANGED <<relayRead, totalIssuance, enumOrder, thrown, outcome>>
    /\ UNCHANGED <<phase, coordVars, pollVars, verifyVars, argVars, moved>>

\* scheduleAndExecuteProposal: moveScheduledCallToNextBlock(id, 'nudge')
MoveNudge ==
    /\ phase \in SimPhases
    /\ pc = "moveNudge"
    /\ MoveScheduledCallToNextBlock("nudge", referendum.id, <<>>)
    /\ IF Len(thrown') > 0
       THEN /\ pc' = "done"
            /\ outcome' = <<SimulationResult(FALSE, FALSE, <<>>, thrown', <<>>)>>
       ELSE /\ pc' = "nudgeBlock"
            /\ outcome' = outcome
    /\ UNCHANGED <<phase, coordVars, pollVars, verifyVars, argVars, head, relay, relayRead, totalIssuance, refInfo,
                   enumOrder, forcedFrom>>

\* scheduleAndExecuteProposal: the block that runs the nudge
NudgeBlock ==
    /\ phase \in SimPhases
    /\ pc = "nudgeBlock"
    /\ ops' = Append(ops, NewBlockOp)
    /\ \E approves \in MayApprove(agenda, refInfo), enactAt \in EnactKeys :
          AfterBlock(agenda, lookup, refInfo, approves, enactAt)
    /\ pc' = "moveExecute"
    /\ UNCHANGED <<phase, coordVars, pollVars, verifyVars, argVars, relayRead, totalIssuance, enumOrder,
                   moved, thrown, forcedFrom, outcome>>

\* scheduleAndExecuteProposal: moveScheduledCallToNextBlock(id, 'execute', hash)
MoveExecute ==
    /\ phase \in SimPhases
    /\ pc = "moveExecute"
    /\ MoveScheduledCallToNextBlock("execute", referendum.id, referendum.proposalHash)
    /\ IF Len(thrown') > 0
       THEN /\ pc' = "done"
            /\ outcome' = <<SimulationResult(FALSE, FALSE, <<>>, thrown', <<>>)>>
       ELSE /\ pc' = "executeBlock"
            /\ outcome' = outcome
    /\ UNCHANGED <<phase, coordVars, pollVars, verifyVars, argVars, head, relay, relayRead, totalIssuance, refInfo,
                   enumOrder, forcedFrom>>

\* scheduleAndExecuteProposal: the executing block, then checkExecutionResults
\* and the result simulate returns.
ExecuteBlock ==
    /\ phase \in SimPhases
    /\ pc = "executeBlock"
    /\ ops' = ops \o <<NewBlockOp, ReadOp("System", "Number"), ReadOp("System", "Events")>>
    /\ \E r \in SimResults :
          /\ events' = BlockEvents(agenda, r)
          /\ expectedBlock' = moved
          /\ verdict' = <<checkExecutionResults(BlockEvents(agenda, r), moved)>>
          /\ outcome' = <<SimulationResult(TRUE,
                              checkExecutionResults(BlockEvents(agenda, r), moved).executionSucceeded,
                              BlockEvents(agenda, r),
                              checkExecutionResults(BlockEvents(agenda, r), moved).errors,
                              <<HeadAfterBlock>>)>>
    /\ AfterBlock(agenda, lookup, refInfo, FALSE, 30)
    /\ pc' = "done"
    /\ UNCHANGED <<phase, coordVars, pollVars, argVars, relayRead, totalIssuance, enumOrder, moved, thrown, forcedFrom>>

SimNext ==
    \/ Simulate
    \/ ExecutePreCall
    \/ ApplyPassingState
    \/ MoveNudge
    \/ NudgeBlock
    \/ MoveExecute
    \/ ExecuteBlock

SpecSim == SimInit /\ [][SimNext]_vars

\* ----------------------------------------------------- claims C8 .. C10
\* A call of applyPassingState is under way in this step.
ApplyStep == phase = "sim" /\ pc = "apply" /\ pc' # "apply"

IsRecordWrite(o) == o.op = "setStorage" /\ o.item = "ReferendumInfoFor"

RecordWritesOf(log) == SelectSeq(log, IsRecordWrite)

\* The step changes nothing in the fork: it neither writes storage nor
\* builds a block.
ReadsOnly ==
    /\ \A n \in 1..Len(NewOps) : NewOps[n].op = "read"
    /\ UNCHANGED forkVars

\* C8: applyPassingState fails with the not-found error when the record is
\* absent, and with the invalid-state error naming the state when the record
\* is in a terminal state other than Approved; in both cases it writes no
\* storage and produces no block.
C8_RejectsWithoutEffect ==
    [][ ApplyStep =>
          /\ Len(refInfo) = 0 =>
                /\ thrown' = << "Referendum " \o ToString(referendum.id) \o " not found in "
                                 \o (IF isFellowship THEN "FellowshipReferenda" ELSE "Referenda")
                                 \o " pallet in Chopsticks instance" >>
                /\ outcome'[1].errors = thrown'
                /\ ~outcome'[1].success
                /\ ReadsOnly
          /\ (Len(refInfo) > 0 /\ refInfo[1].type \in TerminalTypes \ {"Approved"}) =>
                /\ thrown' = << "Referendum " \o ToString(referendum.id)
                                 \o " is not in Ongoing state (current state: "
                                 \o refInfo[1].type \o ")" >>
                /\ outcome'[1].errors = thrown'
                /\ ~outcome'[1].success
                /\ ReadsOnly
      ]_vars

\* Witness of C8: the run ended on the invalid-state error of a Killed
\* record, with a pre-call block as the only block built.
C8_Witness ==
    /\ phase = "sim" /\ pc = "done"
    /\ thrown = <<"Referendum 1840 is not in Ongoing state (current state: Killed)">>
    /\ Len(refInfo) > 0 /\ refInfo[1].type = "Killed"
    /\ Len(SelectSeq(ops, LAMBDA o : o.op = "newBlock")) = 1
    /\ RecordWritesOf(ops) = <<>>

\* C9 as stated: when the record applyPassingState reads is Approved, the
\* forcing step writes no replacement record and the run goes on to the
\* execution step, the relocation of the nudge.
C9_ApprovedRecordNotReplaced ==
    [][ (ApplyStep /\ Len(refInfo) > 0 /\ refInfo[1].type = "Approved") =>
              /\ RecordWritesOf(NewOps) = <<>>
              /\ pc' = "moveNudge"
      ]_vars

\* The record applyPassingState sends to the fork engine in this step.
Written == RecordWritesOf(NewOps)[1].entries[1].value[1]

\* C10: the replacement record applyPassingState writes is an ongoing record
\* with enactment {after: 0}, deciding.since = deciding.confirming =
\* currentBlock - 1, alarm at currentBlock + 1, and the passing tally: ayes =
\* support = totalIssuance - 1 and nays = 0 (decimal strings) for governance,
\* bare_ayes = 100, ayes = 1000, nays = 0 for fellowship.
C10_ReplacementRecord ==
    [][ (ApplyStep /\ RecordWritesOf(NewOps) # <<>>) =>
          LET currentBlock == IF ~isFellowship /\ Len(relay) > 0
                              THEN relay[1] - 1 ELSE head
          IN  /\ Len(RecordWritesOf(NewOps)) = 1
              /\ RecordWritesOf(NewOps)[1].pallet
                    = (IF isFellowship THEN "FellowshipReferenda" ELSE "Referenda")
              /\ Len(RecordWritesOf(NewOps)[1].entries) = 1
              /\ RecordWritesOf(NewOps)[1].entries[1].key = referendum.id
              /\ Written.type = "ongoing"
              /\ Written.value.enactment = <<[after |-> 0]>>
              /\ Written.value.deciding =
                    <<[since |-> currentBlock - 1, confirming |-> currentBlock - 1]>>
              /\ Written.value.alarm = <<<<currentBlock + 1, <<currentBlock + 1, 0>>>>>>
              /\ IF isFellowship
                 THEN Written.value.tally = <<[bare_ayes |-> 100, ayes |-> 1000, nays |-> 0]>>
                 ELSE Written.value.tally =
                        <<[ayes |-> ToString(totalIssuance - 1), nays |-> "0",
                           support |-> ToString(totalIssuance - 1)]>>
      ]_vars

\* Witness of C10: a governance record forced on a fork with relay number 21
\* and issuance 12: tally "11", decision period since 19, alarm at 21.
C10_Witness ==
    /\ phase = "sim" /\ pc = "moveNudge" /\ forcedFrom = "Ongoing"
    /\ ~isFellowship
    /\ \E n \in 1..Len(ops) :
          /\ IsRecordWrite(ops[n])
          /\ ops[n].entries[1].value[1].value.tally =
                <<[ayes |-> "11", nays |-> "0", support |-> "11"]>>
          /\ ops[n].entries[1].value[1].value.deciding = <<[since |-> 19, confirming |-> 19]>>
          /\ ops[n].entries[1].value[1].value.alarm = <<<<21, <<21, 0>>>>>>
    /\ Len(refInfo) > 0 /\ refInfo[1].type = "Ongoing"
    /\ refInfo[1].value.tally = <<[ayes |-> 11, nays |-> 0, support |-> 11]>>

\* ------------------------------------------ SpecBlocks: getSchedulingBlocks
\* The forks a getSchedulingBlocks call may meet: any head number, the relay
\* indicator absent or holding any number, and each outcome of reading it.
BlockNumbers == 1..MaxBlock

RelayReads == {"number", "none", "throws"}

BlocksInit ==
    /\ phase = "blocks"
    /\ IdleVerify
    /\ IdleCoord
    /\ IdlePoll
    /\ isFellowship \in BOOLEAN
    /\ referendum = [id |-> 0, status |-> "", proposalHash |-> <<>>]
    /\ moveArgs = [callType |-> "", proposalHash |-> <<>>]
    /\ preCall = FALSE
    /\ head \in BlockNumbers
    /\ relay \in {<<>>} \cup {<<n>> : n \in BlockNumbers}
    /\ relayRead \in RelayReads
    /\ totalIssuance = 0
    /\ refInfo = <<>>
    /\ agenda = <<>>
    /\ enumOrder = <<>>
    /\ lookup = <<>>
    /\ ops = <<>>
    /\ pc = "call"
    /\ moved = <<>>
    /\ thrown = <<>>
    /\ forcedFrom = ""
    /\ outcome = <<>>

\* One call getSchedulingBlocks().
GetSchedulingBlocks ==
    /\ phase = "blocks"
    /\ pc = "call"
    /\ ops' = ops \o SchedulingReads
    /\ outcome' = <<getSchedulingBlocks>>
    /\ pc' = "returned"
    /\ UNCHANGED <<phase, coordVars, pollVars, verifyVars, forkVars, argVars, moved, thrown, forcedFrom>>

BlocksNext == GetSchedulingBlocks

SpecBlocks == BlocksInit /\ [][BlocksNext]_vars

\* ---------------------------------------------------- claims C11 .. C12
BlocksReturned == phase = "blocks" /\ pc = "returned"

ReadsRelayIndicator ==
    \E n \in 1..Len(ops) : ops[n].op = "read" /\ ops[n].pallet = "ParachainSystem"

\* C11: for a fellowship request getSchedulingBlocks returns current = head
\* number and target = current + 1 and never reads the last-relay-chain-block
\* indicator, even when the fork exposes one.
C11_FellowshipUsesHead ==
    (BlocksReturned /\ isFellowship) =>
        /\ outcome = <<[currentBlock |-> head, targetBlock |-> head + 1]>>
        /\ ~ReadsRelayIndicator

\* Witness of C11: a fellowship call on a fork whose indicator is readable
\* and names another block than head + 1.
C11_Witness ==
    /\ BlocksReturned /\ isFellowship
    /\ Len(relay) > 0 /\ relayRead = "number" /\ relay[1] # head + 1
    /\ outcome[1].targetBlock = head + 1

\* C12 as stated: for a main-governance request the result is current =
\* lastRelayBlock - 1, target = lastRelayBlock whenever the fork exposes the
\* indicator, and current = head, target = head + 1 when it is absent.
C12_GovernanceUsesRelayWhenExposed ==
    (BlocksReturned /\ ~isFellowship) =>
        /\ Len(relay) > 0 =>
              outcome = <<[currentBlock |-> relay[1] - 1, targetBlock |-> relay[1]]>>
        /\ Len(relay) = 0 =>
              outcome = <<[currentBlock |-> head, targetBlock |-> head + 1]>>

\* C12 amended: for a main-governance request the result is current =
\* lastRelayBlock - 1, target = lastRelayBlock when the fork exposes the
\* indicator and reading it yields a number; it is current = head, target =
\* head + 1 when the indicator is absent, when reading it yields no number,
\* and when reading it fails.
C12_GovernanceUsesRelayWhenRead ==
    (BlocksReturned /\ ~isFellowship) =>
        /\ (Len(relay) > 0 /\ relayRead = "number") =>
              /\ outcome = <<[currentBlock |-> relay[1] - 1, targetBlock |-> relay[1]]>>
              /\ ReadsRelayIndicator
        /\ (Len(relay) = 0 \/ relayRead \in {"none", "throws"}) =>
              outcome = <<[currentBlock |-> head, targetBlock |-> head + 1]>>
        /\ Len(relay) = 0 => ~ReadsRelayIndicator

\* Witness of C12: a governance call that took the relay numbering, which
\* differs from the fork's own.
C12_Witness ==
    /\ BlocksReturned /\ ~isFellowship
    /\ Len(relay) > 0 /\ relayRead = "number" /\ relay[1] # head + 1
    /\ outcome = <<[currentBlock |-> relay[1] - 1, targetBlock |-> relay[1]]>>

\* ============================================================ coordinator
\* ---------------------------------------------------- chain-registry.ts
\* The runtime spec name served at each endpoint the runs are given.  Two
\* endpoints may serve the same chain.
SpecNameAt(endpoint) ==
    CASE endpoint = "wss://polkadot"    -> "polkadot"
      [] endpoint = "wss://asset-hub"   -> "asset-hub-polkadot"
      [] endpoint = "wss://asset-hub-2" -> "asset-hub-polkadot"
      [] endpoint = "wss://collectives" -> "collectives-polkadot"
      [] endpoint = "wss://people"      -> "people-polkadot"
      [] endpoint = "wss://polkadot-2"  -> "polkadot"
      [] endpoint = "wss://kusama"      -> "kusama"
      [] endpoint = "wss://westend"     -> "westend"
      [] endpoint = "wss://paseo"       -> "paseo"
      [] OTHER                          -> "unknown"

RelaySpecNames == {"polkadot", "kusama", "paseo", "westend", "rococo"}

NetworkOfSpecName(specName) ==
    CASE specName \in {"polkadot", "asset-hub-polkadot", "collectives-polkadot",
                       "people-polkadot"} -> "polkadot"
      [] specName = "kusama" -> "kusama"
      [] specName = "paseo" -> "paseo"
      [] specName = "westend" -> "westend"
      [] specName = "rococo" -> "rococo"
      [] OTHER -> "unknown"

\* buildChainInfoFromSpecName: the label is the lower-cased spec name.
buildChainInfoFromSpecName(specName, endpoint) ==
    [ label    |-> specName,
      endpoint |-> endpoint,
      network  |-> NetworkOfSpecName(specName),
      kind     |-> IF specName \in RelaySpecNames THEN "relay" ELSE "parachain" ]

getChainInfo(endpoint) == buildChainInfoFromSpecName(SpecNameAt(endpoint), endpoint)

\* ------------------------------------------------ chain-topology-builder.ts
getRelayKey(network) ==
    IF network = "polkadot" THEN "polkadot"
    ELSE IF network = "kusama" THEN "kusama"
    ELSE "relay"

\* A network config is the list of its <<key, endpoint>> entries in insertion
\* order; assigning an existing key replaces its entry in place.
ConfigSet(config, key, endpoint) ==
    IF \E j \in 1..Len(config) : config[j][1] = key
    THEN [j \in 1..Len(config) |->
            IF config[j][1] = key THEN <<key, endpoint>> ELSE config[j]]
    ELSE Append(config, <<key, endpoint>>)

ConfigKeys(config) == {config[j][1] : j \in 1..Len(config)}

buildNetworkTopology(governanceChain, fellowshipChain) ==
    LET governanceIsRelay == governanceChain.kind = "relay"
        fellowshipIsRelay == fellowshipChain.kind = "relay"
        relayChain   == IF governanceIsRelay THEN governanceChain ELSE fellowshipChain
        parachain    == IF governanceIsRelay THEN fellowshipChain ELSE governanceChain
        relayKey     == getRelayKey(relayChain.network)
        parachainKey == IF governanceIsRelay THEN "fellowship" ELSE "governance"
    IN  IF ~governanceIsRelay /\ ~fellowshipIsRelay
        THEN [ networkConfig |-> ConfigSet(ConfigSet(<<>>, "governance",
                                     governanceChain.endpoint),
                                     "fellowship", fellowshipChain.endpoint),
               governanceKey |-> "governance",
               fellowshipKey |-> "fellowship" ]
        ELSE [ networkConfig |-> ConfigSet(ConfigSet(<<>>, relayKey, relayChain.endpoint),
                                     parachainKey, parachain.endpoint),
               governanceKey |-> IF governanceIsRelay THEN relayKey ELSE parachainKey,
               fellowshipKey |-> IF fellowshipIsRelay THEN relayKey ELSE parachainKey ]

\* A registration loop that lets a relay chain take a relay key already in use.
RECURSIVE RegisterFromOverwriting(_, _, _)
RegisterFromOverwriting(chains, i, acc) ==
    IF i > Len(chains) THEN acc
    ELSE LET chain == chains[i]
             key   == IF chain.kind = "relay" THEN getRelayKey(chain.network)
                      ELSE "additional_" \o ToString(i - 1)
         IN  IF chain.endpoint \in acc.usedEndpoints
             THEN RegisterFromOverwriting(chains, i + 1, acc)
             ELSE RegisterFromOverwriting(chains, i + 1,
                      [ networkConfig     |-> ConfigSet(acc.networkConfig, key, chain.endpoint),
                        usedEndpoints     |-> acc.usedEndpoints \cup {chain.endpoint},
                        usedRelayKeys     |-> acc.usedRelayKeys,
                        chainToNetworkKey |-> ConfigSet(acc.chainToNetworkKey, chain.label, key),
                        warned            |-> acc.warned ])

\* A registration loop that does not look at the endpoints already in use.
RECURSIVE RegisterFromDuplicating(_, _, _)
RegisterFromDuplicating(chains, i, acc) ==
    IF i > Len(chains) THEN acc
    ELSE LET chain    == chains[i]
             relayKey == getRelayKey(chain.network)
             key      == IF chain.kind = "relay" THEN relayKey
                         ELSE "additional_" \o ToString(i - 1)
         IN  IF chain.kind = "relay" /\ relayKey \in acc.usedRelayKeys
             THEN RegisterFromDuplicating(chains, i + 1,
                      [acc EXCEPT !.warned = Append(@, "Skipping relay chain " \o chain.label)])
             ELSE RegisterFromDuplicating(chains, i + 1,
                      [ networkConfig     |-> ConfigSet(acc.networkConfig, key, chain.endpoint),
                        usedEndpoints     |-> acc.usedEndpoints \cup {chain.endpoint},
                        usedRelayKeys     |-> IF chain.kind = "relay"
                                              THEN acc.usedRelayKeys \cup {relayKey}
                                              ELSE acc.usedRelayKeys,
                        chainToNetworkKey |-> ConfigSet(acc.chainToNetworkKey, chain.label, key),
                        warned            |-> acc.warned ])

\* registerAdditionalChains, as the loop over _additionalChains from position
\* i on.  acc carries networkConfig, usedEndpoints, usedRelayKeys and the
\* chainToNetworkKey map.
RECURSIVE RegisterFrom(_, _, _)
RegisterFrom(chains, i, acc) ==
    IF i > Len(chains) THEN acc
    ELSE LET chain    == chains[i]
             relayKey == getRelayKey(chain.network)
             key      == IF chain.kind = "relay" THEN relayKey
                         ELSE "additional_" \o ToString(i - 1)
         IN  IF chain.endpoint \in acc.usedEndpoints
             THEN RegisterFrom(chains, i + 1, acc)
             ELSE IF chain.kind = "relay" /\ relayKey \in acc.usedRelayKeys
             THEN RegisterFrom(chains, i + 1,
                      [acc EXCEPT !.warned = Append(@, "Skipping relay chain " \o chain.label)])
             ELSE RegisterFrom(chains, i + 1,
                      [ networkConfig     |-> ConfigSet(acc.networkConfig, key, chain.endpoint),
                        usedEndpoints     |-> acc.usedEndpoints \cup {chain.endpoint},
                        usedRelayKeys     |-> IF chain.kind = "relay"
                                              THEN acc.usedRelayKeys \cup {relayKey}
                                              ELSE acc.usedRelayKeys,
                        chainToNetworkKey |-> ConfigSet(acc.chainToNetworkKey, chain.label, key),
                        warned            |-> acc.warned ])

registerAdditionalChains(additionalChains, networkConfig, governanceChain, fellowshipChain) ==
    RegisterFrom(additionalChains, 1,
        [ networkConfig     |-> networkConfig,
          usedEndpoints     |-> {governanceChain.endpoint, fellowshipChain.endpoint},
          usedRelayKeys     |-> (IF governanceChain.kind = "relay"
                                 THEN {getRelayKey(governanceChain.network)} ELSE {})
                                \cup (IF fellowshipChain.kind = "relay"
                                      THEN {getRelayKey(fellowshipChain.network)} ELSE {}),
          chainToNetworkKey |-> <<>>,
          warned            |-> <<>> ])

\* The additionalManagers map setupInterconnectedChains builds: one manager per
\* chainToNetworkKey entry whose label is neither the governance nor the
\* fellowship label.
IsAdditionalManager(entry, governanceChain, fellowshipChain) ==
    entry[1] # governanceChain.label /\ entry[1] # fellowshipChain.label

RECURSIVE AdditionalManagersOf(_, _, _)
AdditionalManagersOf(chainToNetworkKey, governanceChain, fellowshipChain) ==
    IF chainToNetworkKey = <<>> THEN <<>>
    ELSE (IF IsAdditionalManager(Head(chainToNetworkKey), governanceChain, fellowshipChain)
          THEN <<Head(chainToNetworkKey)>> ELSE <<>>)
         \o AdditionalManagersOf(Tail(chainToNetworkKey), governanceChain, fellowshipChain)

\* ------------------------------------------------- network-coordinator.ts
\* One awaited call of a run.  who is the referendum it serves, on the fork
\* it acts on.  onFail says where its failure goes: "throw" to the enclosing
\* finally block, "escape" out of the method (no try block around it), "log"
\* to a catch block that logs it and skips the next skip calls, "warn" to
\* pauseAllManagers' catch block, "unhandled" to nobody.
Awaited(op, who, on) == [op |-> op, who |-> who, on |-> on, onFail |-> "throw", skip |-> 0]

AwaitedOr(op, who, on, onFail, skip) ==
    [op |-> op, who |-> who, on |-> on, onFail |-> onFail, skip |-> skip]

hasFellowship == request.fellowship # "none"
hasMain       == request.main # "none"

CreateCalls(arg, who, on) ==
    IF arg = "create" THEN <<Awaited("createReferendum", who, on)>> ELSE <<>>

\* A coordinator that does not look at executionSucceeded.
CycleNeverFailed(result) == FALSE

\* The failure of a cycle whose result has executionSucceeded = false.
CycleFailed(result) == result = "failed"

\* testSingleReferendum's try block.
testSingleReferendum ==
    <<Awaited("setup", "governance", "chain"), Awaited("waitForChainReady", "governance", "chain")>>
    \o CreateCalls(request.main, "governance", "chain")
    \o <<Awaited("fetchReferendum", "governance", "chain"),
         Awaited("simulate", "governance", "chain")>>

\* detectRelayNetworkKey: the relay's network when the endpoint serves a relay
\* chain; setup falls back to the key "chain".
detectRelayNetworkKey(endpoint) ==
    IF getChainInfo(endpoint).kind = "relay" THEN getChainInfo(endpoint).network ELSE "chain"

\* testFellowshipOnly's try block.
testFellowshipOnly ==
    LET key == detectRelayNetworkKey(request.fellowshipEndpoint[1])
    IN  <<Awaited("setup", "fellowship", key), Awaited("waitForChainReady", "fellowship", key)>>
        \o CreateCalls(request.fellowship, "fellowship", key)
        \o <<Awaited("fetchReferendum", "fellowship", key),
             Awaited("simulate", "fellowship", key)>>

\* A same-fork run that builds a propagation block between the two cycles.
simulateSequentialWithBlock(key) ==
    << Awaited("fetchReferendum", "fellowship", key),
       Awaited("simulate", "fellowship", key),
       Awaited("newBlock", "", key),
       Awaited("fetchReferendum", "governance", key),
       Awaited("simulate", "governance", key) >>

simulateSequentialReferenda(key) ==
    << Awaited("fetchReferendum", "fellowship", key),
       Awaited("simulate", "fellowship", key),
       Awaited("fetchReferendum", "governance", key),
       Awaited("simulate", "governance", key) >>

\* testSameChainWithFellowship's try block.
testSameChainWithFellowship ==
    <<Awaited("setup", "", "chain"), Awaited("waitForChainReady", "", "chain")>>
    \o CreateCalls(request.fellowship, "fellowship", "chain")
    \o CreateCalls(request.main, "governance", "chain")
    \o simulateSequentialReferenda("chain")

\* A coordinator that starts the governance cycle right after the fellowship
\* cycle, without the two propagation blocks.
simulateWithoutPropagation(governanceKey, fellowshipKey) ==
    << Awaited("fetchReferendum", "fellowship", fellowshipKey),
       Awaited("simulate", "fellowship", fellowshipKey),
       Awaited("fetchReferendum", "governance", governanceKey),
       Awaited("simulate", "governance", governanceKey) >>

\* A coordinator that starts the fellowship fork's propagation block and does
\* not wait for it before building the governance fork's.
simulateWithConcurrentBlocks(governanceKey, fellowshipKey) ==
    << Awaited("fetchReferendum", "fellowship", fellowshipKey),
       Awaited("simulate", "fellowship", fellowshipKey),
       AwaitedOr("newBlock", "", fellowshipKey, "unhandled", 0),
       Awaited("newBlock", "", governanceKey),
       Awaited("fetchReferendum", "governance", governanceKey),
       Awaited("simulate", "governance", governanceKey) >>

simulateMultiChainReferenda(governanceKey, fellowshipKey) ==
    << Awaited("fetchReferendum", "fellowship", fellowshipKey),
       Awaited("simulate", "fellowship", fellowshipKey),
       Awaited("newBlock", "", fellowshipKey),
       Awaited("newBlock", "", governanceKey),
       Awaited("fetchReferendum", "governance", governanceKey),
       Awaited("simulate", "governance", governanceKey) >>

\* A collection loop with no catch block: the first failure ends the try block.
collectWithoutCatch(additionalManagers) ==
    [n \in 1..(2 * Len(additionalManagers)) |->
        IF n % 2 = 1
        THEN Awaited("newBlock", "additional", additionalManagers[(n + 1) \div 2][2])
        ELSE Awaited("observe", "additional", additionalManagers[n \div 2][2])]

\* collectAdditionalChainEvents: per manager one block and one observation
\* (connect, read, destroy), inside a try block whose catch logs the error.
RECURSIVE collectAdditionalChainEvents(_)
collectAdditionalChainEvents(additionalManagers) ==
    IF additionalManagers = <<>> THEN <<>>
    ELSE << AwaitedOr("newBlock", "additional", Head(additionalManagers)[2], "log", 1),
            AwaitedOr("observe", "additional", Head(additionalManagers)[2], "log", 0) >>
         \o collectAdditionalChainEvents(Tail(additionalManagers))

displayPostExecutionEvents(governanceKey, fellowshipKey, additionalManagers) ==
    << Awaited("newBlock", "", governanceKey),
       Awaited("newBlock", "", fellowshipKey),
       Awaited("readEvents", "", governanceKey),
       Awaited("readEvents", "", fellowshipKey) >>
    \o collectAdditionalChainEvents(additionalManagers)

\* What detectChainTypes leaves in the topology for the request's endpoints.
governanceChain == getChainInfo(request.governanceEndpoint[1])
fellowshipChain == getChainInfo(request.fellowshipEndpoint[1])
additionalChains == [i \in 1..Len(request.additional) |-> getChainInfo(request.additional[i])]

Topology == buildNetworkTopology(governanceChain, fellowshipChain)

Registered ==
    registerAdditionalChains(additionalChains, Topology.networkConfig,
                             governanceChain, fellowshipChain)

\* testMultiChain up to the end of its try block; setupInterconnectedChains
\* runs before the try block.
testMultiChain ==
    << AwaitedOr("setupNetworks", "", "", "escape", 0),
       Awaited("waitForChainReady", "governance", Topology.governanceKey),
       Awaited("waitForChainReady", "fellowship", Topology.fellowshipKey) >>
    \o CreateCalls(request.fellowship, "fellowship", Topology.fellowshipKey)
    \o CreateCalls(request.main, "governance", Topology.governanceKey)
    \o simulateMultiChainReferenda(Topology.governanceKey, Topology.fellowshipKey)
    \o displayPostExecutionEvents(Topology.governanceKey, Topology.fellowshipKey,
           AdditionalManagersOf(Registered.chainToNetworkKey, governanceChain, fellowshipChain))

sameEndpoint ==
    \/ request.governanceEndpoint = request.fellowshipEndpoint
    \/ governanceChain.label = fellowshipChain.label

\* The branch testWithFellowship takes, "" when it throws before any.
Branch ==
    IF ~hasMain /\ hasFellowship
    THEN IF request.fellowshipEndpoint = <<>> THEN "" ELSE "fellowship-only"
    ELSE IF hasMain /\ ~hasFellowship
    THEN IF request.governanceEndpoint = <<>> THEN "" ELSE "governance-only"
    ELSE IF ~hasFellowship \/ ~hasMain THEN ""
    ELSE IF request.fellowshipEndpoint = <<>> \/ request.governanceEndpoint = <<>> THEN ""
    ELSE IF sameEndpoint THEN "same-fork"
    ELSE "distinct-forks"

DispatchError ==
    IF ~hasMain /\ hasFellowship
    THEN "Fellowship chain URL must be provided when testing fellowship referendum"
    ELSE IF hasMain /\ ~hasFellowship
    THEN "Governance endpoint must be set for single referendum testing"
    ELSE IF ~hasFellowship \/ ~hasMain
    THEN "Both referendum IDs must be provided or created for dual testing"
    ELSE IF request.fellowshipEndpoint = <<>>
    THEN "Fellowship chain URL must be provided when fellowship referendum ID is set"
    ELSE "Governance chain URL must be provided when testing both referenda"

\* pauseAllManagers: every manager's pause is called inside the try block, but
\* only the last one's promise is awaited there.
pauseAllManagers(keys) ==
    [i \in 1..Len(keys) |->
        AwaitedOr("pause", "", keys[i], IF i = Len(keys) THEN "warn" ELSE "unhandled", 0)]

ManagerKeys(additionalManagers) ==
    [i \in 1..Len(additionalManagers) |-> additionalManagers[i][2]]

CleanupCalls(keys) == [i \in 1..Len(keys) |-> Awaited("cleanup", "", keys[i])]

DestroyCalls(names, cl) ==
    SelectSeq([i \in 1..Len(names) |-> Awaited("destroy", "", names[i])],
              LAMBDA c : c.on \in DOMAIN cl)

\* A finally block that destroys the connection on no path.
singleFinallyKeepingClient(key, cl) ==
    IF request.cleanup THEN <<Awaited("cleanup", "", key)>> ELSE <<Awaited("pause", "", key)>>

\* The finally block of the branch under way, given the connections cl the
\* try block has acquired.
singleFinally(key, cl) ==
    DestroyCalls(<<"client">>, cl)
    \o (IF request.cleanup THEN <<Awaited("cleanup", "", key)>> ELSE <<Awaited("pause", "", key)>>)

sameChainFinally(cl) == DestroyCalls(<<"client">>, cl) \o <<Awaited("cleanup", "", "chain")>>

multiChainFinally(cl) ==
    DestroyCalls(<<"governanceClient", "fellowshipClient">>, cl)
    \o (IF request.cleanup
        THEN CleanupCalls(<<Topology.governanceKey, Topology.fellowshipKey>>
                          \o ManagerKeys(managers))
        ELSE pauseAllManagers(<<Topology.governanceKey>> \o ManagerKeys(managers)
                              \o <<Topology.fellowshipKey>>))

FinallyCalls(cl) ==
    CASE Branch = "governance-only" -> singleFinally("chain", cl)
      [] Branch = "fellowship-only" ->
             singleFinally(detectRelayNetworkKey(request.fellowshipEndpoint[1]), cl)
      [] Branch = "same-fork"       -> sameChainFinally(cl)
      [] OTHER                      -> multiChainFinally(cl)

\* ------------------------------------------------------------- SpecCoord
\* One testWithFellowship run per behaviour.  Every awaited call of the run
\* is one step; the environment decides whether it succeeds, with at most
\* MaxFaults failures per run.
ReferendumArgs == {"none", "id", "create"}
GovernanceEndpoints == {"wss://asset-hub", "wss://polkadot"}
FellowshipEndpoints == {"wss://collectives", "wss://asset-hub"}
AdditionalEndpoints == {"wss://asset-hub-2", "wss://people", "wss://polkadot"}

\* Additional chains are only consulted when both referenda are tested.
CoordRequests ==
    { r \in [ main               : ReferendumArgs,
              fellowship         : ReferendumArgs,
              cleanup            : BOOLEAN,
              governanceEndpoint : {<<>>} \cup {<<e>> : e \in GovernanceEndpoints},
              fellowshipEndpoint : {<<>>} \cup {<<e>> : e \in FellowshipEndpoints},
              additional         : SeqsUpTo(AdditionalEndpoints, MaxAdditional) ] :
        r.additional # <<>> => (r.main # "none" /\ r.fellowship # "none") }

CoordInit ==
    /\ phase = "coord"
    /\ IdleVerify
    /\ IdleArgs
    /\ IdleFork
    /\ IdlePoll
    /\ ops = <<>>
    /\ moved = <<>>
    /\ forcedFrom = ""
    /\ outcome = <<>>
    /\ request \in CoordRequests
    /\ pc = "start"
    /\ thrown = <<>>
    /\ forks = <<>>
    /\ clients = <<>>
    /\ managers = <<>>
    /\ steps = <<>>
    /\ unhandled = {}
    /\ warnings = <<>>
    /\ todo = <<>>

\* The connections detectChainTypes and detectRelayNetworkKey open: each is
\* destroyed before the method returns.
DetectionClients ==
    CASE Branch = "fellowship-only" -> {"tempClient"}
      [] Branch \in {"same-fork", "distinct-forks"} ->
             {"govClient", "fellClient"}
             \cup {"client_" \o ToString(i - 1) : i \in 1..Len(request.additional)}
      [] OTHER -> {}

TryCalls ==
    CASE Branch = "governance-only" -> testSingleReferendum
      [] Branch = "fellowship-only" -> testFellowshipOnly
      [] Branch = "same-fork"       -> testSameChainWithFellowship
      [] OTHER                      -> testMultiChain

TestWithFellowship ==
    /\ phase = "coord"
    /\ pc = "start"
    /\ IF Branch = ""
       THEN /\ pc' = "done"
            /\ thrown' = <<DispatchError>>
            /\ UNCHANGED <<todo, clients>>
       ELSE /\ pc' = "try"
            /\ todo' = TryCalls
            /\ clients' = [n \in DetectionClients |-> "destroyed"]
            /\ UNCHANGED thrown
    /\ UNCHANGED <<phase, verifyVars, forkVars, argVars, pollVars, ops, moved, forcedFrom,
                   outcome, request, forks, managers, steps, unhandled, warnings>>

Faults == Cardinality({i \in 1..Len(steps) : steps[i].result # "ok"})

MayFail == Faults < MaxFaults

\* The call the run makes next.
Current == Head(todo)

Taking(calledOps) ==
    /\ phase = "coord"
    /\ pc \in {"try", "finally"}
    /\ todo # <<>>
    /\ Current.op \in calledOps

ErrorOf(call, result) ==
    CASE call.op = "fetchReferendum" /\ result = "null" ->
             "Failed to fetch " \o call.who \o " referendum"
      [] call.op = "simulate" /\ result = "failed" ->
             call.who \o " referendum execution failed"
      [] call.op = "waitForChainReady" -> "Chain not ready"
      [] call.op = "pause" /\ call.on \notin DOMAIN forks -> "Chopsticks context not initialized"
      [] OTHER -> call.op \o " failed"

Throws(call, result) ==
    \/ result = "throws"
    \/ call.op = "fetchReferendum" /\ result = "null"
    \/ call.op = "simulate" /\ CycleFailed(result)

\* Where the run stands once the calls in rest remain: the end of the try
\* block enters the finally block, the end of the finally block ends the run.
Continue(rest, cl) ==
    IF rest # <<>> THEN [pc |-> pc, todo |-> rest]
    ELSE IF pc = "try" THEN [pc |-> "finally", todo |-> FinallyCalls(cl)]
    ELSE [pc |-> "done", todo |-> <<>>]

\* The run after the current call ended with result, cl being the
\* connections held then.
After(result, cl) ==
    LET call == Current
        msg  == ErrorOf(call, result)
        base == [thrown |-> thrown, warnings |-> warnings, unhandled |-> unhandled]
    IN  IF ~Throws(call, result)
        THEN Continue(Tail(todo), cl) @@
             [base EXCEPT !.warnings =
                 IF result = "unavailable"
                 THEN Append(@, "pause() method not available on context") ELSE @]
        ELSE CASE call.onFail = "throw" ->
                     (IF pc = "try" THEN [pc |-> "finally", todo |-> FinallyCalls(cl)]
                      ELSE [pc |-> "done", todo |-> <<>>])
                     @@ [base EXCEPT !.thrown = <<msg>>]
               [] call.onFail = "escape" ->
                     [pc |-> "done", todo |-> <<>>] @@ [base EXCEPT !.thrown = <<msg>>]
               [] call.onFail \in {"log", "warn"} ->
                     Continue(SubSeq(todo, 2 + call.skip, Len(todo)), cl)
                     @@ [base EXCEPT !.warnings = Append(@, msg)]
               [] OTHER ->
                     Continue(Tail(todo), cl)
                     @@ [base EXCEPT !.unhandled = @ \cup {call.on}]

\* Whether the run waits for the call to settle before it makes the next one:
\* only a call whose promise nobody awaits is left in flight.
IsAwaited(call) == call.onFail # "unhandled"

\* The bookkeeping every call shares: the step is recorded and the run moves on.
Finish(result, cl) ==
    /\ steps' = Append(steps, [op |-> Current.op, who |-> Current.who, on |-> Current.on,
                               result |-> result, awaited |-> IsAwaited(Current)])
    /\ pc' = After(result, cl).pc
    /\ todo' = After(result, cl).todo
    /\ thrown' = After(result, cl).thrown
    /\ warnings' = After(result, cl).warnings
    /\ unhandled' = After(result, cl).unhandled
    /\ UNCHANGED <<phase, verifyVars, forkVars, argVars, pollVars, ops, moved, forcedFrom,
                   outcome, request>>

Among(results, result) == result \in results /\ (result # "ok" => MayFail)

\* chopsticks.setup followed by createPolkadotClient.
Setup ==
    /\ Taking({"setup"})
    /\ \E result \in {"ok", "throws"} :
        /\ Among({"ok", "throws"}, result)
        /\ IF result = "ok"
           THEN /\ forks' = (Current.on :> "running")
                /\ clients' = clients @@ ("client" :> "open")
           ELSE UNCHANGED <<forks, clients>>
        /\ Finish(result, clients')
    /\ UNCHANGED managers

\* setupInterconnectedChains followed by the two createPolkadotClient calls.
SetupInterconnectedChains ==
    /\ Taking({"setupNetworks"})
    /\ \E result \in {"ok", "throws"} :
        /\ Among({"ok", "throws"}, result)
        /\ IF result = "ok"
           THEN /\ forks' = [k \in ConfigKeys(Registered.networkConfig) |-> "running"]
                /\ managers' = AdditionalManagersOf(Registered.chainToNetworkKey,
                                                    governanceChain, fellowshipChain)
                /\ clients' = clients @@ ("governanceClient" :> "open")
                                      @@ ("fellowshipClient" :> "open")
           ELSE UNCHANGED <<forks, managers, clients>>
        /\ Finish(result, clients')

WaitForChainReady ==
    /\ Taking({"waitForChainReady"})
    /\ \E result \in {"ok", "throws"} :
        /\ Among({"ok", "throws"}, result)
        /\ Finish(result, clients)
    /\ UNCHANGED <<forks, clients, managers>>

CreateReferendumIfNeeded ==
    /\ Taking({"createReferendum"})
    /\ \E result \in {"ok", "throws"} :
        /\ Among({"ok", "throws"}, result)
        /\ Finish(result, clients)
    /\ UNCHANGED <<forks, clients, managers>>

FetchReferendum ==
    /\ Taking({"fetchReferendum"})
    /\ \E result \in {"ok", "null", "throws"} :
        /\ Among({"ok", "null", "throws"}, result)
        /\ Finish(result, clients)
    /\ UNCHANGED <<forks, clients, managers>>

SimulateReferendum ==
    /\ Taking({"simulate"})
    /\ \E result \in {"ok", "failed", "throws"} :
        /\ Among({"ok", "failed", "throws"}, result)
        /\ Finish(result, clients)
    /\ UNCHANGED <<forks, clients, managers>>

NewBlock ==
    /\ Taking({"newBlock"})
    /\ \E result \in {"ok", "throws"} :
        /\ Among({"ok", "throws"}, result)
        /\ Finish(result, clients)
    /\ UNCHANGED <<forks, clients, managers>>

ReadEvents ==
    /\ Taking({"readEvents"})
    /\ \E result \in {"ok", "throws"} :
        /\ Among({"ok", "throws"}, result)
        /\ Finish(result, clients)
    /\ UNCHANGED <<forks, clients, managers>>

\* collectAdditionalChainEvents' inner try block: the client is destroyed in
\* its finally whether the reads succeed or not.
ObserveAdditionalChain ==
    /\ Taking({"observe"})
    /\ \E result \in {"ok", "throws"} :
        /\ Among({"ok", "throws"}, result)
        /\ clients' = clients @@ (("client:" \o Current.on) :> "destroyed")
        /\ Finish(result, clients')
    /\ UNCHANGED <<forks, managers>>

DestroyClient ==
    /\ Taking({"destroy"})
    /\ clients' = [clients EXCEPT ![Current.on] = "destroyed"]
    /\ Finish("ok", clients')
    /\ UNCHANGED <<forks, managers>>

\* ChopsticksManager.cleanup: nothing to do without a context; otherwise the
\* context's teardown runs and the context is dropped once it has returned.
Cleanup ==
    /\ Taking({"cleanup"})
    /\ \E result \in {"ok", "throws"} :
        /\ Among({"ok", "throws"}, result)
        /\ result = "throws" => Current.on \in DOMAIN forks
        /\ IF result = "ok" /\ Current.on \in DOMAIN forks
           THEN forks' = [forks EXCEPT ![Current.on] = "destroyed"]
           ELSE UNCHANGED forks
        /\ Finish(result, clients)
    /\ UNCHANGED <<clients, managers>>

\* ChopsticksManager.pause: rejects without a context, warns when the context
\* has no pause hook, otherwise awaits the hook.
Pause ==
    /\ Taking({"pause"})
    /\ \E result \in {"ok", "unavailable", "throws"} :
        /\ IF Current.on \in DOMAIN forks
           THEN Among({"ok", "unavailable", "throws"}, result)
           ELSE result = "throws"
        /\ IF result = "ok"
           THEN forks' = [forks EXCEPT ![Current.on] = "paused"]
           ELSE UNCHANGED forks
        /\ Finish(result, clients)
    /\ UNCHANGED <<clients, managers>>

CoordNext ==
    \/ TestWithFellowship
    \/ Setup
    \/ SetupInterconnectedChains
    \/ WaitForChainReady
    \/ CreateReferendumIfNeeded
    \/ FetchReferendum
    \/ SimulateReferendum
    \/ NewBlock
    \/ ReadEvents
    \/ ObserveAdditionalChain
    \/ DestroyClient
    \/ Cleanup
    \/ Pause

SpecCoord == CoordInit /\ [][CoordNext]_vars

\* ------------------------------------------------------- claims on SpecCoord
Distinct == phase = "coord" /\ pc # "start" /\ Branch = "distinct-forks"

Completed == pc = "done" /\ thrown = <<>>

IsCycleOrBlock(e) == e.op \in {"simulate", "newBlock"}

\* The cycles and block productions of the run so far, in order.
CyclesAndBlocks == SelectSeq(steps, IsCycleOrBlock)

\* The cycles and blocks of the two referendum forks, in the claimed order.
ForkOrder ==
    << <<"simulate", "fellowship", Topology.fellowshipKey>>,
       <<"newBlock", "", Topology.fellowshipKey>>,
       <<"newBlock", "", Topology.governanceKey>>,
       <<"simulate", "governance", Topology.governanceKey>>,
       <<"newBlock", "", Topology.governanceKey>>,
       <<"newBlock", "", Topology.fellowshipKey>> >>

ManagedOrder ==
    ForkOrder \o [i \in 1..Len(managers) |-> <<"newBlock", "additional", managers[i][2]>>]

InOrder(expected) ==
    /\ Len(CyclesAndBlocks) <= Len(expected)
    /\ \A i \in 1..Len(CyclesAndBlocks) :
          <<CyclesAndBlocks[i].op, CyclesAndBlocks[i].who, CyclesAndBlocks[i].on>> = expected[i]
    /\ \A i \in 1..Len(CyclesAndBlocks) :
          (i <= Len(ForkOrder) /\ i < Len(CyclesAndBlocks)) => CyclesAndBlocks[i].result = "ok"

AdditionalForks == DOMAIN forks \ {Topology.governanceKey, Topology.fellowshipKey}

BlocksOn(key) ==
    {i \in 1..Len(CyclesAndBlocks) :
        /\ i > Len(ForkOrder)
        /\ CyclesAndBlocks[i].op = "newBlock"
        /\ CyclesAndBlocks[i].on = key
        /\ CyclesAndBlocks[i].result = "ok"}

\* C13 as stated: in a distinct-forks run that completes, the fellowship
\* cycle, one block on each of the two forks, the governance cycle and one
\* more block on each of the two forks occur in this order, and then every
\* additional chain forked for the run produces exactly one block.
C13_EveryAdditionalChainOneBlock ==
    (Distinct /\ Completed) =>
        /\ InOrder(ManagedOrder)
        /\ \A key \in AdditionalForks : Cardinality(BlocksOn(key)) = 1

\* C13 (amended): the cycles and blocks of a distinct-forks run occur in the
\* order fellowship cycle, fellowship block, governance block, governance
\* cycle, governance block, fellowship block, then one block production call
\* per additional chain that has a manager, in the managers' order; a run that
\* completes has made all of them, each of the first six successfully, and an
\* additional chain's failed block production has been logged.
C13_StepsInOrder ==
    Distinct =>
        /\ InOrder(ManagedOrder)
        /\ Completed => Len(CyclesAndBlocks) = Len(ManagedOrder)
        /\ Completed =>
              \A i \in 1..Len(CyclesAndBlocks) :
                  CyclesAndBlocks[i].result # "ok" =>
                      /\ i > Len(ForkOrder)
                      /\ \E w \in 1..Len(warnings) : warnings[w] = "newBlock failed"

\* Witness of C13: a completed distinct-forks run with two additional
\* managers, one of whose block productions failed.
C13_Witness ==
    /\ Distinct
    /\ Completed
    /\ Len(managers) = 2
    /\ Len(CyclesAndBlocks) = Len(ForkOrder) + 2
    /\ \E i \in 1..Len(CyclesAndBlocks) : CyclesAndBlocks[i].result # "ok"
    /\ \E i \in 1..Len(CyclesAndBlocks) :
          i > Len(ForkOrder) /\ CyclesAndBlocks[i].result = "ok"

BothReferenda == phase = "coord" /\ Branch \in {"same-fork", "distinct-forks"}

IsGovernanceCycleStep(e) == e.who = "governance" /\ e.op \in {"fetchReferendum", "simulate"}

FellowshipCycleSucceededBefore(i) ==
    \E j \in 1..(i - 1) :
        /\ steps[j].op = "simulate"
        /\ steps[j].who = "fellowship"
        /\ steps[j].result = "ok"

\* C14: when both referenda are tested, on one fork or on two, every step of
\* the governance cycle (its fetch, and its simulate call with the storage
\* writes and blocks it makes) comes after the fellowship cycle has returned
\* with executionSucceeded = true; after a fellowship outcome with
\* executionSucceeded = false no governance step is ever made.
C14_GovernanceAfterFellowship ==
    BothReferenda =>
        \A i \in 1..Len(steps) :
            IsGovernanceCycleStep(steps[i]) => FellowshipCycleSucceededBefore(i)

\* Witness of C14: a run of both referenda that has ended after the fellowship
\* cycle returned executionSucceeded = false.
C14_Witness ==
    /\ BothReferenda
    /\ pc = "done"
    /\ \E j \in 1..Len(steps) :
          steps[j].op = "simulate" /\ steps[j].who = "fellowship" /\ steps[j].result = "failed"

Ended == phase = "coord" /\ pc = "done"

C16_EveryForkTornDown ==
    (Ended /\ request.cleanup) => \A key \in DOMAIN forks : forks[key] = "destroyed"

\* C17 as stated: when no cleanup is requested, no fork is destroyed in any
\* branch, up to and including the end of the run.
C17_NoForkDestroyed ==
    (phase = "coord" /\ ~request.cleanup) => \A key \in DOMAIN forks : forks[key] # "destroyed"

PauseErrors == {"pause failed", "Chopsticks context not initialized"}

FailedPauses == {i \in 1..Len(steps) : steps[i].op = "pause" /\ steps[i].result = "throws"}

LoggedPauseErrors == {w \in 1..Len(warnings) : warnings[w] \in PauseErrors}

\* C18 as stated: in no-cleanup mode an error raised while pausing a fork is
\* logged, is not the error the run ends with, and is not left unhandled.
C18_PauseErrorsLoggedNotFatal ==
    (phase = "coord" /\ ~request.cleanup) =>
        /\ thrown = <<>> \/ thrown[1] \notin PauseErrors
        /\ unhandled = {}
        /\ Cardinality(LoggedPauseErrors) = Cardinality(FailedPauses)

\* ===================================================== chopsticks-manager.ts
CHAIN_READY_MAX_ATTEMPTS == 10
NEW_BLOCK_MAX_WAIT_MS == 10000
NEW_BLOCK_POLL_INTERVAL_MS == 100

\* ----------------------------------------------------------- SpecNewBlock
\* One newBlock call per behaviour.  The fork engine may move its head when
\* the build call resolves, during any of the poll sleeps, or not at all.
HeadsAfter(h) == IF h = <<>> THEN {<<>>} ELSE {h, <<h[1] + 1>>}

NewBlockInit ==
    /\ phase = "newblock"
    /\ IdleVerify
    /\ IdleArgs
    /\ IdleFork
    /\ ops = <<>>
    /\ moved = <<>>
    /\ forcedFrom = ""
    /\ outcome = <<>>
    /\ request = <<>>
    /\ forks \in {<<>>, ("chain" :> "running")}
    /\ clients = <<>>
    /\ managers = <<>>
    /\ steps = <<>>
    /\ unhandled = {}
    /\ warnings = <<>>
    /\ todo = <<>>
    /\ chainHead \in {<<>>} \cup {<<n>> : n \in 1..MaxBlock}
    /\ headBefore = <<>>
    /\ elapsed = 0
    /\ attempt = 0
    /\ maxAttempts = 0
    /\ pc = "call"
    /\ thrown = <<>>

\* newBlock up to the return of dev.newBlock.
BuildBlock ==
    /\ phase = "newblock"
    /\ pc = "call"
    /\ IF forks = <<>>
       THEN /\ thrown' = <<"Chopsticks context not initialized">>
            /\ pc' = "threw"
            /\ UNCHANGED <<headBefore, chainHead>>
       ELSE /\ headBefore' = chainHead
            /\ \E resolves \in BOOLEAN :
                 IF resolves
                 THEN /\ chainHead' \in HeadsAfter(chainHead)
                      /\ pc' = IF headBefore' = <<>> THEN "returned" ELSE "polling"
                      /\ UNCHANGED thrown
                 ELSE /\ thrown' = <<"dev.newBlock failed">>
                      /\ pc' = "threw"
                      /\ UNCHANGED chainHead
    /\ UNCHANGED <<phase, verifyVars, forkVars, argVars, coordVars, ops, moved, forcedFrom,
                   outcome, elapsed, attempt, maxAttempts>>

HeadAdvanced == chainHead # <<>> /\ chainHead[1] > headBefore[1]

\* One evaluation of the polling loop: leave it when the wait is used up or
\* the head has advanced, otherwise sleep for one poll interval.
PollHead ==
    /\ phase = "newblock"
    /\ pc = "polling"
    /\ IF ~(elapsed < NEW_BLOCK_MAX_WAIT_MS) \/ HeadAdvanced
       THEN /\ pc' = "returned"
            /\ UNCHANGED <<elapsed, chainHead>>
       ELSE /\ elapsed' = elapsed + NEW_BLOCK_POLL_INTERVAL_MS
            /\ chainHead' \in HeadsAfter(chainHead)
            /\ UNCHANGED pc
    /\ UNCHANGED <<phase, verifyVars, forkVars, argVars, coordVars, ops, moved, forcedFrom,
                   outcome, thrown, headBefore, attempt, maxAttempts>>

NewBlockNext == BuildBlock \/ PollHead

SpecNewBlock == NewBlockInit /\ [][NewBlockNext]_vars

\* C19 as stated: newBlock returns normally only once the head number strictly
\* exceeds the head number recorded before the build call.
C19_ReturnsOnlyAfterAdvance ==
    (phase = "newblock" /\ pc = "returned") =>
        /\ headBefore # <<>>
        /\ HeadAdvanced

\* ------------------------------------------------------------- SpecReady
\* One waitForChainReady call per behaviour, with a positive maxAttempts.
ReadyInit ==
    /\ phase = "ready"
    /\ IdleVerify
    /\ IdleArgs
    /\ IdleCoord
    /\ relay = <<>>
    /\ relayRead = "number"
    /\ totalIssuance = 0
    /\ refInfo = <<>>
    /\ agenda = <<>>
    /\ enumOrder = <<>>
    /\ lookup = <<>>
    /\ head \in 1..MaxBlock
    /\ ops = <<>>
    /\ moved = <<>>
    /\ forcedFrom = ""
    /\ outcome = <<>>
    /\ chainHead = <<>>
    /\ headBefore = <<>>
    /\ elapsed = 0
    /\ maxAttempts \in 1..CHAIN_READY_MAX_ATTEMPTS
    /\ attempt = 1
    /\ pc = "loop"
    /\ thrown = <<>>

\* A loop that never takes an attempt for the last one.
NeverLastAttempt(n, max) == FALSE

LastAttempt(n, max) == n = max

ChainNotReadyMessage(max) == "Chain not ready after " \o ToString(max) \o " attempts"

\* One turn of waitForChainReady's loop: the loop test, the System.Number
\* read, and what follows its success or failure.
ReadinessRead ==
    /\ phase = "ready"
    /\ pc = "loop"
    /\ IF ~(attempt <= maxAttempts)
       THEN /\ pc' = "returned"
            /\ UNCHANGED <<ops, attempt, thrown>>
       ELSE \E succeeds \in BOOLEAN :
            /\ ops' = Append(ops, ReadOp("System", "Number"))
            /\ IF succeeds
               THEN /\ pc' = "returned"
                    /\ UNCHANGED <<attempt, thrown>>
               ELSE IF LastAttempt(attempt, maxAttempts)
               THEN /\ pc' = "threw"
                    /\ thrown' = <<ChainNotReadyMessage(maxAttempts)>>
                    /\ UNCHANGED attempt
               ELSE /\ attempt' = attempt + 1
                    /\ UNCHANGED <<pc, thrown>>
    /\ UNCHANGED <<phase, verifyVars, forkVars, argVars, coordVars, moved, forcedFrom, outcome,
                   chainHead, headBefore, elapsed, maxAttempts>>

ReadyNext == ReadinessRead

SpecReady == ReadyInit /\ [][ReadyNext]_vars

\* C20: waitForChainReady makes at most maxAttempts readiness reads; it
\* returns normally only right after a read that succeeded, every earlier
\* read having failed; and it throws the "not ready" error exactly when the
\* maxAttempts-th read in a row has failed, without reading again.
C20_BoundedReadiness ==
    phase = "ready" =>
        /\ Len(ops) <= maxAttempts
        /\ pc = "loop" => Len(ops) = attempt - 1
        /\ pc = "returned" => (Len(ops) = attempt /\ thrown = <<>>)
        /\ pc = "threw" => /\ Len(ops) = maxAttempts
                           /\ attempt = maxAttempts
                           /\ thrown = <<ChainNotReadyMessage(maxAttempts)>>

\* Witness of C20: a call with the default maxAttempts whose every read failed
\* and which threw after the last one.
C20_Witness ==
    /\ phase = "ready"
    /\ pc = "threw"
    /\ maxAttempts = CHAIN_READY_MAX_ATTEMPTS
    /\ Len(ops) = CHAIN_READY_MAX_ATTEMPTS

\* ------------------------------------------- claims C21, C29 (on SpecSim)
IsStorageWrite(o) == o.op = "setStorage"

IsBlockOp(o) == o.op = "newBlock"

IsLookupRead(o) == o.op = "read" /\ o.pallet = "Scheduler" /\ o.item = "Lookup"

IsLookupWrite(o) == o.op = "setStorage" /\ o.pallet = "Scheduler" /\ o.item = "Lookup"

\* C21 as stated: every storage write of the cycle is directly followed by a
\* block production, with no read and no other write in between, and no block
\* is directly followed by another block.
C21_WriteThenBlock ==
    phase = "sim" =>
        \A i \in 1..(Len(ops) - 1) :
            /\ IsStorageWrite(ops[i]) => IsBlockOp(ops[i + 1])
            /\ IsBlockOp(ops[i]) => ~IsBlockOp(ops[i + 1])

\* What may stand between the write at position i and its committing block:
\* nothing, or, after the Agenda write of a relocation, the read of the
\* relocated entry's Lookup alias and the write of that alias.
CommittedAfter(i) ==
    LET rest == SubSeq(ops, i + 1, Len(ops))
    IN  \/ rest = <<>>
        \/ IsBlockOp(rest[1])
        \/ /\ ops[i].item = "Agenda"
           /\ IsLookupRead(rest[1])
           /\ \/ Len(rest) = 1
              \/ IsBlockOp(rest[2])
              \/ /\ IsLookupWrite(rest[2])
                 /\ Len(rest) = 2 \/ IsBlockOp(rest[3])

\* C21 (amended): every storage write of the cycle is committed by exactly one
\* block before the fork is read again, except that the Agenda write of a
\* relocation may first be followed by the read and the write of the
\* relocated entry's Lookup alias, which the same block commits; no block is
\* directly followed by another block, and a cycle that returns a verdict
\* has left no write uncommitted.
C21_WritesCommittedByOneBlock ==
    phase = "sim" =>
        /\ \A i \in 1..Len(ops) : IsStorageWrite(ops[i]) => CommittedAfter(i)
        /\ \A i \in 1..(Len(ops) - 1) : IsBlockOp(ops[i]) => ~IsBlockOp(ops[i + 1])
        /\ (pc = "done" /\ thrown = <<>> /\ ops # <<>>) => ~IsStorageWrite(ops[Len(ops)])

\* Witness of C21: a cycle that returned a verdict after relocating an entry
\* together with its Lookup alias.
C21_Witness ==
    /\ phase = "sim"
    /\ pc = "done"
    /\ thrown = <<>>
    /\ \E i \in 1..Len(ops) : IsLookupWrite(ops[i])

\* The writes and blocks of the cycle in order, each by its kind: a block, or
\* the storage item written.  The Lookup write of a relocation belongs to the
\* relocation and is not counted as a step of its own.
IsCycleStep(o) == IsBlockOp(o) \/ (IsStorageWrite(o) /\ ~IsLookupWrite(o))

CycleStepKinds ==
    LET sel == SelectSeq(ops, IsCycleStep)
    IN  [i \in 1..Len(sel) |-> IF IsBlockOp(sel[i]) THEN "block" ELSE sel[i].item]

IsEventsRead(o) == o.op = "read" /\ o.pallet = "System" /\ o.item = "Events"

\* A cycle on an ongoing referendum without pre-call that returned a verdict.
CycleReturned ==
    /\ phase = "sim" /\ pc = "done" /\ thrown = <<>>
    /\ referendum.status = "ongoing" /\ ~preCall

\* C29: a cycle on an ongoing referendum without pre-call that returns a
\* verdict has made, in this order, the forced-record write as one batch, a
\* block, the nudge relocation, a block, the execute relocation, a block, and
\* last the read of the events: three blocks in all.
C29_ThreeBlocksInOrder ==
    CycleReturned =>
        /\ CycleStepKinds = <<"ReferendumInfoFor", "block", "Agenda", "block", "Agenda", "block">>
        /\ \A i \in 1..Len(ops) : IsRecordWrite(ops[i]) => Len(ops[i].entries) = 1
        /\ Len(SelectSeq(ops, IsBlockOp)) = 3
        /\ Len(SelectSeq(ops, IsEventsRead)) = 1
        /\ IsEventsRead(ops[Len(ops)])
        /\ verdict # <<>>

\* Witness of C29: such a cycle whose verdict is that the proposal executed.
C29_Witness ==
    /\ CycleReturned
    /\ verdict # <<>>
    /\ verdict[1].executionSucceeded
    /\ Len(SelectSeq(ops, IsBlockOp)) = 3

\* --------------------------------------------- claims C22 .. (on SpecCoord)
FinallyOps == {"destroy", "cleanup", "pause"}

StepFailed(e) == e.result \notin {"ok", "unavailable"}

\* A failed call of the try block on the governance or the fellowship fork.
ForkFailureAt(i) ==
    /\ StepFailed(steps[i])
    /\ steps[i].op \notin FinallyOps
    /\ steps[i].who # "additional"

HasStep(op, who, on) ==
    \E i \in 1..Len(steps) : steps[i].op = op /\ steps[i].who = who /\ steps[i].on = on

AdvancingOps == {"newBlock", "simulate", "createReferendum"}

\* C23: in a run on distinct forks every call that builds a block or writes
\* storage has settled before the run makes its next call, so no two such
\* calls are ever in flight together, on one fork or on two.
C23_OneAdvancingCallInFlight ==
    Distinct => \A i \in 1..Len(steps) : steps[i].op \in AdvancingOps => steps[i].awaited

\* Witness of C23: a completed distinct-forks run with an additional chain
\* that left a call in flight (a pause) which advances no fork.
C23_Witness ==
    /\ Distinct
    /\ Completed
    /\ Len(managers) >= 1
    /\ \E i \in 1..Len(steps) : ~steps[i].awaited
    /\ \A i \in 1..Len(steps) : steps[i].op \in AdvancingOps => steps[i].result = "ok"

\* ----------------------------------------------------------- SpecTopology
\* One network config built for a run on distinct forks: detectChainTypes has
\* filled the topology from the request's endpoints, setupInterconnectedChains
\* calls buildNetworkTopology and then registerAdditionalChains on its result.
TopologyGovernanceEndpoints == {"wss://asset-hub", "wss://polkadot", "wss://kusama"}
TopologyFellowshipEndpoints == {"wss://collectives", "wss://polkadot", "wss://westend"}
TopologyAdditionalEndpoints ==
    {"wss://asset-hub", "wss://asset-hub-2", "wss://people", "wss://polkadot",
     "wss://polkadot-2", "wss://westend", "wss://paseo"}

TopologyRequests ==
    [ main               : {"id"},
      fellowship         : {"id"},
      cleanup            : {TRUE},
      governanceEndpoint : {<<e>> : e \in TopologyGovernanceEndpoints},
      fellowshipEndpoint : {<<e>> : e \in TopologyFellowshipEndpoints},
      additional         : SeqsUpTo(TopologyAdditionalEndpoints, MaxAdditional) ]

TopologyInit ==
    /\ phase = "topology"
    /\ IdleVerify
    /\ IdleArgs
    /\ IdleFork
    /\ IdlePoll
    /\ ops = <<>>
    /\ moved = <<>>
    /\ forcedFrom = ""
    /\ outcome = <<>>
    /\ request \in TopologyRequests
    /\ Branch = "distinct-forks"
    /\ pc = "detected"
    /\ thrown = <<>>
    /\ forks = <<>>
    /\ clients = <<>>
    /\ managers = <<>>
    /\ steps = <<>>
    /\ unhandled = {}
    /\ warnings = <<>>
    /\ todo = <<>>

BuildNetworkTopology ==
    /\ phase = "topology"
    /\ pc = "detected"
    /\ pc' = "built"
    /\ outcome' = <<Topology>>
    /\ UNCHANGED <<phase, verifyVars, forkVars, argVars, pollVars, ops, moved, forcedFrom,
                   thrown, request, forks, clients, managers, steps, unhandled, warnings,
                   todo>>

RegisterAdditionalChains ==
    /\ phase = "topology"
    /\ pc = "built"
    /\ pc' = "registered"
    /\ LET registered == registerAdditionalChains(additionalChains,
                             outcome[1].networkConfig, governanceChain, fellowshipChain)
       IN  /\ outcome' = <<[ networkConfig     |-> registered.networkConfig,
                             governanceKey     |-> outcome[1].governanceKey,
                             fellowshipKey     |-> outcome[1].fellowshipKey,
                             usedEndpoints     |-> registered.usedEndpoints,
                             chainToNetworkKey |-> registered.chainToNetworkKey ]>>
           /\ warnings' = registered.warned
    /\ UNCHANGED <<phase, verifyVars, forkVars, argVars, pollVars, ops, moved, forcedFrom,
                   thrown, request, forks, clients, managers, steps, unhandled, todo>>

TopologyNext == BuildNetworkTopology \/ RegisterAdditionalChains

SpecTopology == TopologyInit /\ [][TopologyNext]_vars

\* ----------------------------------------------- claims C24 .. (on SpecTopology)
TopologyRegistered == phase = "topology" /\ pc = "registered"

ConfigEndpoints(config) == {config[j][2] : j \in 1..Len(config)}

RelayKeys == {"polkadot", "kusama", "relay"}

\* C24: registering the additional chains never overwrites an entry of the
\* network config: the entries buildNetworkTopology made are unchanged, every
\* chain that was registered still holds an entry of its own, and an additional
\* relay chain left out because its relay key was taken is reported in a
\* warning.
C24_RelayKeyNeverOverwritten ==
    TopologyRegistered =>
        LET config == outcome[1].networkConfig
        IN  /\ \A j \in 1..Len(Topology.networkConfig) : config[j] = Topology.networkConfig[j]
            /\ \A e \in outcome[1].usedEndpoints : e \in ConfigEndpoints(config)
            /\ \A i \in 1..Len(additionalChains) :
                  (additionalChains[i].kind = "relay"
                      /\ additionalChains[i].endpoint \notin ConfigEndpoints(config))
                  => \E w \in 1..Len(warnings) :
                        warnings[w] = "Skipping relay chain " \o additionalChains[i].label

\* Witness of C24: an additional relay chain took the generic relay key and a
\* later relay chain with the same key was left out with a warning.
C24_Witness ==
    /\ TopologyRegistered
    /\ warnings # <<>>
    /\ "relay" \in ConfigKeys(outcome[1].networkConfig)
    /\ Len(outcome[1].networkConfig) = 3

\* The endpoints of the governance and the fellowship chain, in use before
\* any additional chain is looked at.
BaseEndpoints == {governanceChain.endpoint, fellowshipChain.endpoint}

\* The additional chain at position i names an endpoint that is in use when
\* the loop reaches it.
DuplicateEndpoint(i) ==
    \/ additionalChains[i].endpoint \in BaseEndpoints
    \/ /\ additionalChains[i].endpoint \in outcome[1].usedEndpoints
       /\ \E j \in 1..(i - 1) : additionalChains[j].endpoint = additionalChains[i].endpoint

EntriesFor(label) ==
    {j \in 1..Len(outcome[1].chainToNetworkKey) : outcome[1].chainToNetworkKey[j][1] = label}

NoSharedEndpoint ==
    \A j, k \in 1..Len(outcome[1].networkConfig) :
        outcome[1].networkConfig[j][2] = outcome[1].networkConfig[k][2] => j = k

\* C25 as stated: no two entries of the network config share an endpoint, and
\* for every additional chain skipped as a duplicate endpoint the
\* chain-to-key map holds exactly one entry for the chain's label.
C25_DuplicateHasOneMapEntry ==
    TopologyRegistered =>
        /\ NoSharedEndpoint
        /\ \A i \in 1..Len(additionalChains) :
              DuplicateEndpoint(i) => Cardinality(EntriesFor(additionalChains[i].label)) = 1

\* C25, amended: no two entries of the network config share an endpoint; the
\* chain-to-key map holds at most one entry per label, exactly one for the
\* label of a duplicate whose endpoint was first used by an additional chain,
\* and a duplicate of the governance or fellowship endpoint adds none.
C25_DuplicatesCollapse ==
    TopologyRegistered =>
        /\ NoSharedEndpoint
        /\ Len(outcome[1].networkConfig) = Cardinality(outcome[1].usedEndpoints)
        /\ \A i \in 1..Len(additionalChains) :
              /\ Cardinality(EntriesFor(additionalChains[i].label)) <= 1
              /\ (DuplicateEndpoint(i) /\ additionalChains[i].endpoint \notin BaseEndpoints)
                    => Cardinality(EntriesFor(additionalChains[i].label)) = 1
              /\ (\A j \in 1..Len(additionalChains) :
                      additionalChains[j].endpoint \in BaseEndpoints)
                    => outcome[1].chainToNetworkKey = <<>>

\* Witness of C25: the same endpoint given twice as an additional chain, which
\* made one fork beside the governance and the fellowship fork.
C25_Witness ==
    /\ TopologyRegistered
    /\ Len(additionalChains) = 2
    /\ additionalChains[1].endpoint = additionalChains[2].endpoint
    /\ additionalChains[1].endpoint \notin BaseEndpoints
    /\ Len(outcome[1].networkConfig) = 3
    /\ Len(outcome[1].chainToNetworkKey) = 1

TopologyBuilt == phase = "topology" /\ pc \in {"built", "registered"}

\* The key a chain is to have: a relay chain its network identity, or the
\* generic key when the network has none of its own; a parachain its role.
ExpectedKey(chain, role) ==
    IF chain.kind = "relay"
    THEN IF chain.network \in {"polkadot", "kusama"} THEN chain.network ELSE "relay"
    ELSE role

\* The endpoint the network config holds under key, <<>> when it has none.
EndpointAt(config, key) ==
    IF \E j \in 1..Len(config) : config[j][1] = key
    THEN <<(CHOOSE e \in ConfigEndpoints(config) : <<key, e>> \in
               {config[j] : j \in 1..Len(config)})>>
    ELSE <<>>

\* C26: buildNetworkTopology gives a relay chain the key of its network
\* identity (or the generic key) and a parachain its role key, and each
\* returned key names the config entry of its own chain.
C26_KeysFollowChainKind ==
    TopologyBuilt =>
        /\ outcome[1].governanceKey = ExpectedKey(governanceChain, "governance")
        /\ outcome[1].fellowshipKey = ExpectedKey(fellowshipChain, "fellowship")
        /\ EndpointAt(outcome[1].networkConfig, outcome[1].governanceKey)
              = <<governanceChain.endpoint>>
        /\ EndpointAt(outcome[1].networkConfig, outcome[1].fellowshipKey)
              = <<fellowshipChain.endpoint>>

\* ------------------------------------------------- claim C27 (on SpecCoord)
Dispatched == phase = "coord" /\ pc # "start"

Paths == {"governance-only", "fellowship-only", "same-fork", "distinct-forks"}

\* The path a run is on, read from the first call it made or is to make.
PathOf(call) ==
    CASE call.op = "setupNetworks" -> "distinct-forks"
      [] call.op = "setup" /\ call.who = "governance" -> "governance-only"
      [] call.op = "setup" /\ call.who = "fellowship" -> "fellowship-only"
      [] call.op = "setup" /\ call.who = "" -> "same-fork"
      [] OTHER -> ""

PathTaken ==
    IF steps # <<>> THEN PathOf(steps[1])
    ELSE IF todo # <<>> THEN PathOf(todo[1])
    ELSE ""

\* The path the inputs call for.
PathOfInputs ==
    IF hasMain /\ ~hasFellowship THEN "governance-only"
    ELSE IF hasFellowship /\ ~hasMain THEN "fellowship-only"
    ELSE IF request.governanceEndpoint = request.fellowshipEndpoint
            \/ SpecNameAt(request.governanceEndpoint[1]) = SpecNameAt(request.fellowshipEndpoint[1])
    THEN "same-fork"
    ELSE "distinct-forks"

\* The inputs name no referendum, or lack the endpoint of a referendum they name.
MissingInput ==
    \/ ~hasMain /\ ~hasFellowship
    \/ hasFellowship /\ request.fellowshipEndpoint = <<>>
    \/ hasMain /\ request.governanceEndpoint = <<>>

\* On the same-fork path there is one fork, every call is made on it, no
\* block is built by the coordinator, and the governance cycle follows the
\* fellowship cycle directly after its fetch.
SameForkShape ==
    /\ DOMAIN forks \subseteq {"chain"}
    /\ \A i \in 1..Len(steps) :
          /\ steps[i].op # "newBlock"
          /\ steps[i].op \notin FinallyOps => steps[i].on = "chain"
          /\ (steps[i].op = "simulate" /\ steps[i].who = "governance")
                => /\ i > 2
                   /\ steps[i - 1].op = "fetchReferendum"
                   /\ steps[i - 2].op = "simulate"
                   /\ steps[i - 2].who = "fellowship"
                   /\ steps[i - 2].on = steps[i].on

\* C27 as stated: every run takes exactly one of the four paths.
C27_AlwaysOneOfFourPaths ==
    Dispatched => (PathTaken \in Paths /\ PathTaken = PathOfInputs)

\* C27, amended: a run whose inputs name no referendum, or lack the endpoint
\* of a referendum they name, is rejected before any fork is created; every
\* other run takes exactly the one of the four paths its inputs call for, and
\* the same-fork path keeps to a single fork without propagation blocks.
C27_OnePathOrRejected ==
    Dispatched =>
        IF MissingInput
        THEN pc = "done" /\ thrown # <<>> /\ steps = <<>> /\ forks = <<>> /\ PathTaken = ""
        ELSE /\ PathTaken \in Paths
             /\ PathTaken = PathOfInputs
             /\ PathTaken = "same-fork" => SameForkShape

\* Witness of C27: a completed same-fork run with both cycles on the one fork.
C27_Witness ==
    /\ Dispatched
    /\ PathTaken = "same-fork"
    /\ Completed
    /\ \E i, j \in 1..Len(steps) :
          /\ i < j
          /\ steps[i].op = "simulate" /\ steps[i].who = "fellowship" /\ steps[i].result = "ok"
          /\ steps[j].op = "simulate" /\ steps[j].who = "governance" /\ steps[j].result = "ok"

\* ---------------------------------------- SpecInterpret: interpretDispatchResult
\* One call of interpretDispatchResult per behaviour, on a result drawn from
\* every shape the function tells apart.
InterpretErrors ==
    { ErrUndefined, ErrString(""), ErrString("BadOrigin"),
      ErrTyped("Module: {index:21}"), ErrObject("{token:FundsUnavailable}"),
      ErrArray(<<>>), ErrArray(<<"BadOrigin", "Other">>) }

InterpretTags == {"Ok", "Success", "Err", "Error", "Fail", "Failure", "Weird", "err"}

InterpretResults ==
    {ResNull, ResOkKey}
    \cup {ResBool(b) : b \in BOOLEAN}
    \cup {ResString(t) : t \in InterpretTags}
    \cup {ResSuccess(b, e) : b \in BOOLEAN, e \in InterpretErrors}
    \cup {ResIsOk(b, e) : b \in BOOLEAN, e \in InterpretErrors}
    \cup {ResOkFlag(b, e) : b \in BOOLEAN, e \in InterpretErrors}
    \cup {ResErrKey(e) : e \in InterpretErrors}
    \cup {ResTyped(t, e) : t \in InterpretTags, e \in InterpretErrors}

InterpretInit ==
    /\ phase = "interpret"
    /\ events \in {<<r>> : r \in InterpretResults}
    /\ expectedBlock = <<>>
    /\ verdict = <<>>
    /\ IdleArgs
    /\ IdleFork
    /\ IdleRun
    /\ IdleCoord
    /\ IdlePoll

InterpretDispatchResult ==
    /\ phase = "interpret"
    /\ verdict = <<>>
    /\ verdict' = <<interpretDispatchResult(events[1])>>
    /\ UNCHANGED <<phase, coordVars, pollVars, events, expectedBlock, forkVars, argVars, runVars>>

InterpretNext == InterpretDispatchResult

SpecInterpret == InterpretInit /\ [][InterpretNext]_vars

\* ------------------------------------------------------------- claim C28
InterpretedFailure ==
    phase = "interpret" /\ verdict # <<>> /\ verdict[1].outcome = "failure"

\* The payloads whose formatted text is empty: the empty string and the
\* empty array.
EmptyPayload(error) ==
    \/ error.kind = "string" /\ error.text = ""
    \/ error.kind = "array" /\ error.items = <<>>

MatchPayloads ==
    { NoPayload,
      BinaryPayload(ProposalHashText, <<>>),
      BinaryPayload(OtherHashText, <<>>),
      Payload("string", "0xABC0", TRUE, <<>>),
      Payload("string", "abc0", FALSE, <<>>),
      Payload("object", "{call:remark}", FALSE, <<>>) }

MatchCalls ==
    {NoCall}
    \cup { Call("papi", t, v, 0) : t \in {"Lookup", "Inline", "Legacy"}, v \in MatchPayloads }
    \cup { Call("storage", t, v, 0) : t \in {"lookup", "inline"}, v \in MatchPayloads }

MatchHashes ==
    { <<>>, <<"">>, <<ProposalHashText>>, <<"0xABC0">>, <<OtherHashText>>,
      <<"{call:remark}">>, <<"[object Object]">> }

MatchInit ==
    /\ phase = "match"
    /\ events \in {<<c>> : c \in MatchCalls}
    /\ expectedBlock = <<>>
    /\ verdict = <<>>
    /\ isFellowship = FALSE
    /\ referendum = [id |-> 0, status |-> "", proposalHash |-> <<>>]
    /\ moveArgs \in {[callType |-> "execute", proposalHash |-> h] : h \in MatchHashes}
    /\ preCall = FALSE
    /\ IdleFork
    /\ IdleRun
    /\ IdleCoord
    /\ IdlePoll

IsProposalExecutionCall ==
    /\ phase = "match"
    /\ verdict = <<>>
    /\ verdict' = <<isProposalExecutionCall(events[1], moveArgs.proposalHash)>>
    /\ UNCHANGED <<phase, coordVars, pollVars, events, expectedBlock, forkVars, argVars, runVars>>

MatchNext == IsProposalExecutionCall

SpecMatch == MatchInit /\ [][MatchNext]_vars

\* ------------------------------------------------------------- claim C30
Matched == phase = "match" /\ verdict # <<>>

IsLookupCall(call) == call.fmt # "none" /\ ToLowerCase(call.type) = "lookup"

IsInlineCall(call) == call.fmt # "none" /\ ToLowerCase(call.type) = "inline"

HashGiven == moveArgs.proposalHash # <<>> /\ moveArgs.proposalHash[1] # ""

\* The canonical hex of the call's hash or payload equals proposalHash,
\* exactly or without regard to case.
HexEquals(call) ==
    /\ toHexString(call.value) # <<>>
    /\ toHexString(call.value)[1] = moveArgs.proposalHash[1]

HexEqualsIgnoringCase(call) ==
    /\ toHexString(call.value) # <<>>
    /\ ToLowerCase(toHexString(call.value)[1]) = ToLowerCase(moveArgs.proposalHash[1])

\* The JSON text of a payload that has no hex form equals proposalHash.
TextEquals(call) ==
    /\ toHexString(call.value) = <<>>
    /\ call.value.repr = "object"
    /\ StringifyPayload(call.value) = moveArgs.proposalHash[1]

\* The string form of a hash that has no hex form equals proposalHash.
StringEquals(call) ==
    /\ toHexString(call.value) = <<>>
    /\ StringOf(call.value) = moveArgs.proposalHash[1]

\* C30 as stated: a Lookup call matches only if its hash equals proposalHash;
\* an Inline call matches unconditionally when no hash is given and otherwise
\* iff the canonical hex of its payload equals proposalHash without regard
\* to case.
C30_ExecutePredicate ==
    Matched =>
        /\ (IsLookupCall(events[1]) /\ verdict[1]) => (HashGiven /\ HexEquals(events[1]))
        /\ (IsInlineCall(events[1]) /\ ~HashGiven) => verdict[1]
        /\ (IsInlineCall(events[1]) /\ HashGiven)
              => (verdict[1] <=> HexEqualsIgnoringCase(events[1]))

\* C30, amended: with no hash given a Lookup call and an Inline call both
\* match unconditionally; with a hash given a Lookup call matches iff the
\* canonical hex of its hash - or, for a hash without a hex form, its string
\* form - equals proposalHash exactly, and an Inline call iff the canonical
\* hex of its payload - or, for a payload without a hex form, its JSON text -
\* equals proposalHash without regard to case; any other call never matches.
C30_ExecutePredicateWithDefaults ==
    Matched =>
        /\ (IsLookupCall(events[1]) /\ ~HashGiven) => verdict[1]
        /\ (IsLookupCall(events[1]) /\ HashGiven)
              => (verdict[1] <=> (HexEquals(events[1]) \/ StringEquals(events[1])))
        /\ (IsInlineCall(events[1]) /\ ~HashGiven) => verdict[1]
        /\ (IsInlineCall(events[1]) /\ HashGiven)
              => (verdict[1] <=> (HexEqualsIgnoringCase(events[1]) \/ TextEquals(events[1])))
        /\ (~IsLookupCall(events[1]) /\ ~IsInlineCall(events[1])) => ~verdict[1]

\* Witness of C30: an Inline call matched on a payload that differs from
\* proposalHash in case only.
C30_Witness ==
    /\ Matched
    /\ IsInlineCall(events[1])
    /\ HashGiven
    /\ verdict[1]
    /\ toHexString(events[1].value) # <<>>
    /\ toHexString(events[1].value)[1] # moveArgs.proposalHash[1]

\* --------------------------- SpecNudge: the nudge relocation's selection
\* One call moveScheduledCallToNextBlock(referendum.id, 'nudge') per
\* behaviour, on an agenda that holds a single item whose call is drawn from
\* the shapes isNudgeReferendumCall tells apart: inline bytes that decode, or
\* do not, and pre-decoded call objects.
NudgePallets == {"Referenda", "FellowshipReferenda", "System"}
NudgeMethods == {"nudge_referendum", "nudgeReferendum", "remark"}

NudgeDecoded ==
    { DecodedCall(p, m, r) : p \in NudgePallets, m \in NudgeMethods,
                             r \in TestedRefs \cup OtherRefs }

NudgePayloads ==
    { BinaryPayload("0x1502", <<d>>) : d \in NudgeDecoded }
    \cup { Payload("object", "{call}", FALSE, <<d>>) : d \in NudgeDecoded }
    \cup { BinaryPayload("0xffff", <<>>), NoPayload }

NudgeCandidates ==
    { Call("papi", "Inline", v, 0) : v \in NudgePayloads }
    \cup { LookupCall(ProposalHashText) }

\* The slot the candidate is scheduled in: the last of the keys.
NudgeSlot == CHOOSE k \in MoveKeys : \A other \in MoveKeys : other <= k

NudgeInit ==
    /\ phase = "nudge"
    /\ events \in {<<c>> : c \in NudgeCandidates}
    /\ expectedBlock = <<>>
    /\ verdict = <<>>
    /\ IdleCoord
    /\ IdlePoll
    /\ isFellowship \in BOOLEAN
    /\ \E r \in TestedRefs :
          referendum = [id |-> r, status |-> "ongoing", proposalHash |-> <<ProposalHashText>>]
    /\ moveArgs = [callType |-> "nudge", proposalHash |-> <<>>]
    /\ preCall = FALSE
    /\ head \in MoveHead
    /\ relay \in MoveRelay
    /\ relayRead = "number"
    /\ totalIssuance = 0
    /\ refInfo = <<>>
    /\ agenda = [k \in MoveKeys |->
                    IF k = NudgeSlot
                    THEN <<Item(events[1], <<>>, 128, <<>>, RootOrigin)>>
                    ELSE <<>>]
    /\ lookup = [a \in AliasIds |-> <<>>]
    /\ enumOrder = Ascending(MoveKeys)
    /\ ops = <<>>
    /\ pc = "call"
    /\ moved = <<>>
    /\ thrown = <<>>
    /\ forcedFrom = ""
    /\ outcome = <<>>

\* moveScheduledCallToNextBlock(referendum.id, 'nudge')
MoveNudgeCall ==
    /\ phase = "nudge"
    /\ pc = "call"
    /\ MoveScheduledCallToNextBlock("nudge", referendum.id, <<>>)
    /\ pc' = "returned"
    /\ UNCHANGED <<phase, coordVars, pollVars, verifyVars, argVars, head, relay, relayRead,
                   totalIssuance, refInfo, enumOrder, forcedFrom, outcome>>

NudgeNext == MoveNudgeCall

SpecNudge == NudgeInit /\ [][NudgeNext]_vars

\* ------------------------------------------------------------- claim C31
NudgeSelected == phase = "nudge" /\ pc = "returned" /\ moved # <<>>

\* The call is a call of the governance pallet's nudge-referendum entry point
\* with index referendumId.
TargetsNudgeOf(call, referendumId) ==
    /\ Len(call.value.decoded) > 0
    /\ call.value.decoded[1].pallet = getReferendaPalletName
    /\ call.value.decoded[1].method \in {"nudge_referendum", "nudgeReferendum"}
    /\ call.value.decoded[1].index = referendumId

\* C31: the nudge relocation selects an item only if its call is the
\* governance pallet's nudge-referendum call with index referendumId.
C31_NudgeOnlyForReferendum ==
    NudgeSelected => TargetsNudgeOf(events[1], referendum.id)

\* ------------------------------------------- claims C32 .. C34 (on SpecMove)
\* The match the call under way finds, <<>> when there is none.
FoundMatch ==
    findMatchingScheduledCall(moveArgs.callType, referendum.id, moveArgs.proposalHash)

MoveFinds == MoveStep /\ FoundMatch # <<>>

IsAliasWriteTo(o, id, block) ==
    /\ IsLookupWrite(o)
    /\ o.entries = <<Entry(id, <<<<block, 0>>>>)>>

C33_AliasPointsAtItem ==
    [][ (MoveFinds /\ FoundMatch[1].scheduledEntry.maybeId # <<>>) =>
            LET id == FoundMatch[1].scheduledEntry.maybeId[1]
                at == lookup'[id]
            IN  /\ at # <<>>
                /\ at[1] \in DOMAIN agenda'
                /\ at[2] + 1 <= Len(agenda'[at[1]])
                /\ agenda'[at[1]][at[2] + 1].maybeId = <<id>>
      ]_vars

\* C34: every item scheduled at targetBlock before a relocation is scheduled
\* there after it.
C34_TargetItemsKept ==
    [][ MoveFinds =>
            LET targetBlock == getSchedulingBlocks.targetBlock
            IN  \A i \in 1..Len(agenda[targetBlock]) :
                    \E j \in 1..Len(agenda'[targetBlock]) :
                        agenda'[targetBlock][j] = agenda[targetBlock][i]
      ]_vars

\* ---------------------------------------------- claim C35 (on SpecTopology)
\* C35: the governanceKey and the fellowshipKey buildNetworkTopology returns
\* differ, and the network config holds under each the endpoint of its own
\* chain, whatever the kinds of the two chains.
C35_KeysDistinctAndOwn ==
    TopologyBuilt =>
        /\ outcome[1].governanceKey # outcome[1].fellowshipKey
        /\ \E j \in 1..Len(outcome[1].networkConfig) :
              outcome[1].networkConfig[j]
                  = <<outcome[1].governanceKey, governanceChain.endpoint>>
        /\ \E j \in 1..Len(outcome[1].networkConfig) :
              outcome[1].networkConfig[j]
                  = <<outcome[1].fellowshipKey, fellowshipChain.endpoint>>

\* ------------------------------------------- claims C36, C37 (on SpecSim)
SimReturned == phase = "sim" /\ pc = "done" /\ outcome # <<>>

\* C36: an outcome of simulate has executionSucceeded = true only if the run
\* built a block and the outcome's events hold a Scheduler.Dispatched event
\* classified as success.
C36_SuccessOnlyWithDispatch ==
    (SimReturned /\ outcome[1].executionSucceeded) =>
        /\ \E n \in 1..Len(ops) : IsBlockOp(ops[n])
        /\ \E i \in 1..Len(outcome[1].events) :
              /\ IsDispatched(outcome[1].events[i])
              /\ Outcome(outcome[1].events[i]) = "success"

\* C37: every call of simulate ends by returning an outcome, also when a step
\* of it failed; in the outcome executionSucceeded = true implies
\* success = true, and executionSucceeded = false implies a non-empty error
\* list, which for a failed step holds the error's message.
C37_OutcomeWellFormed ==
    (phase = "sim" /\ pc = "done") =>
        /\ outcome # <<>>
        /\ outcome[1].executionSucceeded => outcome[1].success
        /\ ~outcome[1].executionSucceeded => Len(outcome[1].errors) > 0
        /\ thrown # <<>> => (~outcome[1].success /\ outcome[1].errors = thrown)

\* Witness of C37: a cycle that ran to its verdict and found the proposal's
\* dispatch failed.
C37_Witness ==
    /\ SimReturned
    /\ thrown = <<>>
    /\ outcome[1].success
    /\ ~outcome[1].executionSucceeded
    /\ Len(outcome[1].errors) > 0
    /\ Len(outcome[1].events) > 0

\* --------------------------------------------------------- SpecPreCall
\* The governance referendum's simulation as each branch of the coordinator
\* starts it, with or without the pre-call the command line supplied.
GovernanceBranches == {"governance-only", "same-fork", "distinct-forks"}

PreCallRequests ==
    [ main               : {"id"},
      fellowship         : {"none", "id"},
      cleanup            : {TRUE},
      governanceEndpoint : {<<"wss://asset-hub">>},
      fellowshipEndpoint : {<<>>, <<"wss://asset-hub">>, <<"wss://collectives">>},
      additional         : {<<>>},
      preCall            : BOOLEAN ]

\* The preCall option the branch hands to the governance simulator:
\* testSingleReferendum forwards options.preCall, simulateSequentialReferenda
\* and simulateMultiChainReferenda call simulate with the referendum alone.
SimulateOptions ==
    IF Branch = "governance-only" THEN request.preCall ELSE FALSE

PreCallInit ==
    /\ phase = "precall"
    /\ IdleVerify
    /\ IdlePoll
    /\ request \in PreCallRequests
    /\ Branch \in GovernanceBranches
    /\ forks = <<>>
    /\ clients = <<>>
    /\ managers = <<>>
    /\ steps = <<>>
    /\ unhandled = {}
    /\ warnings = <<>>
    /\ todo = <<>>
    /\ isFellowship = FALSE
    /\ \E r \in TestedRefs :
          referendum = [id |-> r, status |-> "ongoing", proposalHash |-> <<ProposalHashText>>]
    /\ refInfo = <<OngoingInfo>>
    /\ moveArgs = [callType |-> "", proposalHash |-> <<>>]
    /\ preCall = FALSE
    /\ head \in MoveHead
    /\ relay \in MoveRelay
    /\ relayRead = "number"
    /\ totalIssuance \in SimIssuance
    /\ agenda \in SimAgendas
    /\ lookup = LookupOf(agenda)
    /\ enumOrder = Ascending(SimKeys)
    /\ ops = <<>>
    /\ pc = "coordinator"
    /\ moved = <<>>
    /\ thrown = <<>>
    /\ forcedFrom = ""
    /\ outcome = <<>>

\* The coordinator's call of simulate for the governance referendum.
GovernanceSimulate ==
    /\ phase = "precall"
    /\ pc = "coordinator"
    /\ preCall' = SimulateOptions
    /\ pc' = "start"
    /\ UNCHANGED <<phase, coordVars, pollVars, verifyVars, forkVars, isFellowship, referendum,
                   moveArgs, ops, moved, thrown, forcedFrom, outcome>>

PreCallNext ==
    \/ GovernanceSimulate
    \/ SimNext

SpecPreCall == PreCallInit /\ [][PreCallNext]_vars

\* ------------------------------------------------------------ claim C38
\* The write that forces the referendum's record into the passing state.
IsForcedStateWrite(o) ==
    o.op = "setStorage" /\ o.item = "ReferendumInfoFor"

\* The write executePreCall makes to inject the pre-call into the agenda.
IsPreCallInjection(o) ==
    /\ o.op = "setStorage"
    /\ o.pallet = "Scheduler"
    /\ o.item = "agenda"
    /\ \E e \in 1..Len(o.entries) : o.entries[e].value = << <<PreCallItem>> >>

\* C38: when a pre-call is supplied, in every branch that simulates a
\* governance referendum (governance-only, same-fork, distinct-forks) the
\* pre-call is injected and a block dispatching it is built strictly before
\* the write that forces the governance referendum's state.
C38_PreCallBeforeForcedState ==
    (phase = "precall" /\ request.preCall) =>
        \A n \in 1..Len(ops) :
            IsForcedStateWrite(ops[n]) =>
                \E i, j \in 1..(n - 1) :
                    /\ i < j
                    /\ IsPreCallInjection(ops[i])
                    /\ IsBlockOp(ops[j])

\* ------------------------------------------------------------ claim C39
\* The finally block is running after the try block threw.
FinallyAfterFailure == phase = "coord" /\ pc = "finally" /\ thrown # <<>>

\* C39: when a run fails in its try block (fork setup or simulation throws),
\* the error that reaches the caller is that failure: no cleanup or pause of
\* the finally block replaces it with an error of its own, whether cleanup is
\* requested or not.
C39_OriginalFailureReachesCaller ==
    [][FinallyAfterFailure => thrown' = thrown]_vars

\* ------------------------------------------------------------ claim C40
\* The errors of the verdict hold the no-dispatch diagnostic.
HasNoDispatchDiagnostic ==
    \E i \in 1..Len(verdict[1].errors) :
        verdict[1].errors[i] = NoDispatchMessage(expectedBlock)

\* C40: the no-dispatch diagnostic is returned only when there is no
\* authoritative Dispatched event: if the events hold an authoritative
\* Dispatched event, also one classified unknown, the errors do not say
\* "No Scheduler.Dispatched event found".
C40_DiagnosticOnlyWithoutDispatch ==
    (Checked /\ ~NoAuthoritativeDispatch) => ~HasNoDispatchDiagnostic

====
